---- MODULE Spec2Model ----
(***************************************************************************)
(* Slot availability and reservation flow of the EV wireless-charging      *)
(* reservation front-end (user-front/src/App.tsx, api/client.ts,           *)
(* pages/Schedule.tsx).                                                    *)
(*                                                                         *)
(* Reprenetlogation.                                                         *)
(*  - An "HH:MM" label is the pair <<h, m>>; toMinutes parses it and       *)
(*    fromMinutes formats minutes back, as the code does.                  *)
(*  - An ISO date is a day number.  new Date(iso) / setDate / toISOString  *)
(*    is day arithmetic in the business time zone (Asia/Seoul, README      *)
(*    line 8), which has no daylight-saving shift.                         *)
(*  - The display label of a strip entry (month/day) is not modelled.      *)
(*  - React: state written by a handler is rendered and the effects whose  *)
(*    dependencies changed are run (RunEffects) before the next event or   *)
(*    network continuation is processed.                                   *)
(***************************************************************************)
EXTENDS Integers, Sequences, FiniteSets, TLC

\* ------------------------------------------------------------------ bounds
MaxInFlight == 2
NumWorlds == 2
FetchWorld == 1

\* ------------------------------------------------------- program constants
START_HOUR == 9
END_HOUR == 22
SLOT_MINUTES == 30
OFFSET_FIRST == 3
OFFSET_LAST == 10
PCT_ROOMY == 66
PCT_MODERATE == 33
DAY_END_MINUTES == END_HOUR * 60
SESSION_OPTIONS == <<1, 2, 3, 4>>
DURATION_OPTIONS == <<30, 60, 90, 120>>

\* null for strings, "no slot" for a label, undefined for a session bucket
Null == "null"

NoSlot == <<>>

Undefined == [undefined |-> TRUE]

SeqRange(s) == {s[i] : i \in 1..Len(s)}

\* ------------------------------------------------------------ time helpers
toMinutes(hhmm) == hhmm[1] * 60 + hhmm[2]

fromMinutes(mins) == <<mins \div 60, mins % 60>>

\* variant of SlotLoop: the closing hour opens two slots of its own
RECURSIVE SlotLoopInclusive(_)
SlotLoopInclusive(h) ==
    IF h <= END_HOUR THEN <<<<h, 0>>, <<h, 30>>>> \o SlotLoopInclusive(h + 1) ELSE <<>>

\* for (h = START_HOUR; h <= END_HOUR - 1; h++) { push(h:00); push(h:30) }
RECURSIVE SlotLoop(_)
SlotLoop(h) ==
    IF h <= END_HOUR - 1 THEN <<<<h, 0>>, <<h, 30>>>> \o SlotLoop(h + 1) ELSE <<>>

daySlots == SlotLoop(START_HOUR)

SLOTS == daySlots

\* the grid of the administrator's front end, with its own business hours
ADMIN_START_HOUR == 9
ADMIN_END_HOUR == 22

RECURSIVE SlotsOfDayLoop(_)
SlotsOfDayLoop(h) ==
    IF h <= ADMIN_END_HOUR - 1
      THEN <<<<h, 0>>, <<h, 30>>>> \o SlotsOfDayLoop(h + 1)
      ELSE <<>>

slotsOfDay == SlotsOfDayLoop(ADMIN_START_HOUR)

endTime(start, dur) == fromMinutes(toMinutes(start) + dur)

\* --------------------------------------------------- occupancy calculation
\* variant of Walk: the walk includes the end label
RECURSIVE WalkInclusive(_, _)
WalkInclusive(current, end) ==
    IF current <= end
      THEN {fromMinutes(current)} \cup WalkInclusive(current + SLOT_MINUTES, end)
      ELSE {}

\* while (current < end) { occupied.add(fromMinutes(current)); current += 30 }
RECURSIVE Walk(_, _)
Walk(current, end) ==
    IF current < end
      THEN {fromMinutes(current)} \cup Walk(current + SLOT_MINUTES, end)
      ELSE {}

ReservationSlots(r) == Walk(toMinutes(r.startTime), toMinutes(r.endTime))

\* session?.reservations.forEach(...) over an optional session bucket
Occupied(session) ==
    IF session = Undefined THEN {}
    ELSE UNION {ReservationSlots(session.reservations[i]) :
                  i \in 1..Len(session.reservations)}

\* variant of FindSession: the first bucket stands in for a missing one
FindSessionOrFirst(sessions, sid) ==
    IF \E i \in 1..Len(sessions) : sessions[i].sessionId = sid
      THEN sessions[CHOOSE i \in 1..Len(sessions) :
                      /\ sessions[i].sessionId = sid
                      /\ \A j \in 1..(i - 1) : sessions[j].sessionId # sid]
      ELSE IF sessions # <<>> THEN sessions[1] ELSE Undefined

\* sessions.find((item) => item.sessionId === sessionId)
FindSession(sessions, sid) ==
    IF \E i \in 1..Len(sessions) : sessions[i].sessionId = sid
      THEN sessions[CHOOSE i \in 1..Len(sessions) :
                      /\ sessions[i].sessionId = sid
                      /\ \A j \in 1..(i - 1) : sessions[j].sessionId # sid]
      ELSE Undefined

\* variant of Max0: the magnitude instead of the clamp
Magnitude(n) == IF n > 0 THEN n ELSE 0 - n

\* Math.max(0, n)
Max0(n) == IF n > 0 THEN n ELSE 0

\* variant of Round: the fraction is cut off
RoundDown(num, den) == num \div den

\* Math.round(x) for x = num / den >= 0: the nearest integer, halves upwards.
\* (free / SLOTS.length) * 100 is computed in floating point; with 26 slots the
\* exact value is never closer than 1/26 to a half, so the exact quotient
\* rounds to the same integer.
Round(num, den) == (2 * num + den) \div (2 * den)

FreePct(occupied) ==
    Round(Max0(Len(SLOTS) - Cardinality(occupied)) * 100, Len(SLOTS))

\* variant of Color: the thresholds belong to the lower tier's neighbour
ColorInclusive(freePct) ==
    IF freePct >= PCT_ROOMY THEN "bg-emerald-500"
    ELSE IF freePct >= PCT_MODERATE THEN "bg-amber-500"
    ELSE "bg-rose-500"

Color(freePct) ==
    IF freePct > PCT_ROOMY THEN "bg-emerald-500"
    ELSE IF freePct > PCT_MODERATE THEN "bg-amber-500"
    ELSE "bg-rose-500"

\* ---------------------------------------------------------- window build
\* variant of DateRange: the window starts one day late
DateRangeShifted(d) == [i \in 1..(OFFSET_FIRST + OFFSET_LAST + 1) |-> d - OFFSET_FIRST + i]

\* range: the dates at offsets -3 .. +10 from the selected date
DateRange(d) == [i \in 1..(OFFSET_FIRST + OFFSET_LAST + 1) |-> d - OFFSET_FIRST + (i - 1)]

StripEntry(iso, sessions, sid) ==
    LET occ == Occupied(FindSession(sessions, sid))
    IN  [dateISO |-> iso, freePct |-> FreePct(occ), color |-> Color(FreePct(occ))]

\* responses.forEach(...): one entry per response, in the order of the array
Strips(responses, sid) ==
    [i \in 1..Len(responses) |-> StripEntry(responses[i].iso, responses[i].sessions, sid)]

\* selectedSession: the bucket of the last response whose iso is the selected date
SelectedSession(responses, d, sid) ==
    IF \E i \in 1..Len(responses) : responses[i].iso = d
      THEN FindSession(responses[CHOOSE i \in 1..Len(responses) :
                                   /\ responses[i].iso = d
                                   /\ \A j \in (i + 1)..Len(responses) : responses[j].iso # d].sessions,
                       sid)
      ELSE Undefined

NextOccupied(responses, d, sid) == Occupied(SelectedSession(responses, d, sid))

\* ------------------------------------------------- start-time reconciliation
Fits(slot, dur) == toMinutes(slot) + dur <= DAY_END_MINUTES

\* variant of Preferred: the scan runs forward
PreferredEarliest(dur, occ) ==
    LET ok == {i \in 1..Len(SLOTS) : toMinutes(SLOTS[i]) + dur <= DAY_END_MINUTES
                                      /\ SLOTS[i] \notin occ}
    IN  IF ok = {} THEN NoSlot ELSE SLOTS[CHOOSE i \in ok : \A j \in ok : i <= j]

\* [...SLOTS].reverse().find(fits && !occupiedSet.has(slot))
Preferred(dur, occ) ==
    LET ok == {i \in 1..Len(SLOTS) : Fits(SLOTS[i], dur) /\ SLOTS[i] \notin occ}
    IN  IF ok = {} THEN NoSlot ELSE SLOTS[CHOOSE i \in ok : \A j \in ok : j <= i]

\* variant of Reconciled: an occupied selection is moved as well
ReconciledEager(st, dur, occ) ==
    IF toMinutes(st) + dur <= DAY_END_MINUTES /\ st \notin occ THEN st
    ELSE IF Preferred(dur, occ) # NoSlot /\ Preferred(dur, occ) # st THEN Preferred(dur, occ)
    ELSE st

\* [...SLOTS].find(fits)
Fallback(dur) ==
    LET ok == {i \in 1..Len(SLOTS) : Fits(SLOTS[i], dur)}
    IN  IF ok = {} THEN NoSlot ELSE SLOTS[CHOOSE i \in ok : \A j \in ok : i <= j]

\* variant of Reconciled: the fallback scan is missing
ReconciledWithoutFallback(st, dur, occ) ==
    IF toMinutes(st) + dur <= DAY_END_MINUTES THEN st
    ELSE IF Preferred(dur, occ) # NoSlot /\ Preferred(dur, occ) # st THEN Preferred(dur, occ)
    ELSE st

\* the value of startTime after the reconciliation effect has run
Reconciled(st, dur, occ) ==
    IF toMinutes(st) + dur <= DAY_END_MINUTES THEN st
    ELSE IF Preferred(dur, occ) # NoSlot /\ Preferred(dur, occ) # st THEN Preferred(dur, occ)
    ELSE IF Fallback(dur) # NoSlot /\ Fallback(dur) # st THEN Fallback(dur)
    ELSE st

\* ------------------------------------------------------------ environment
\* What GET /reservations/by-session can answer for one date: the list of
\* session buckets, each with its reservations (only the fields the client reads).
Res(sh, sm, eh, em) == [startTime |-> <<sh, sm>>, endTime |-> <<eh, em>>]

Bucket(sid, rs) == [sessionId |-> sid, reservations |-> rs]

Payloads ==
    << <<>>,
       <<Bucket(1, <<Res(9, 0, 10, 0)>>),
         Bucket(2, <<Res(20, 0, 21, 0), Res(10, 0, 11, 30)>>)>>,
       <<Bucket(1, <<Res(9, 0, 22, 0)>>),
         Bucket(2, <<Res(19, 30, 22, 0)>>)>> >>

\* The reservation store as one of a few snapshots: what date d answers in world k.
WorldPayload(k, d) == Payloads[((d + k + OFFSET_FIRST * Len(Payloads)) % Len(Payloads)) + 1]

Worlds == 1..NumWorlds

\* the dates (day numbers), durations and slots a user is made to select
DateChoices == {0, 1}

DurationChoices == {dur \in SeqRange(DURATION_OPTIONS) : dur \in {30, 120}}

\* the sessions a user is made to select in this model
SessionChoices == {s \in SeqRange(SESSION_OPTIONS) : s \in {1, 2}}

\* the slots a user is made to click in this model
SlotChoices == {<<9, 0>>, <<21, 30>>}

\* err.message of a failed request
ErrMessages == {"request failed"}

\* ---------------------------------------------------------------- strings
\* A string is the sequence of its characters.  "K" stands for a Hangul syllable.
Digits == {"1", "2", "3", "4", "5", "6"}

Hangul == {"K"}

\* plate.replace(/\s/g, "")
StripSpaces(str) == SelectSeq(str, LAMBDA c : c # " ")

RECURSIVE TrimStart(_)
TrimStart(str) == IF str # <<>> /\ Head(str) = " " THEN TrimStart(Tail(str)) ELSE str

RECURSIVE TrimEnd(_)
TrimEnd(str) ==
    IF str # <<>> /\ str[Len(str)] = " " THEN TrimEnd(SubSeq(str, 1, Len(str) - 1)) ELSE str

\* String.prototype.trim
Trim(str) == TrimEnd(TrimStart(str))

\* String.prototype.toLowerCase on the alphabet of EmailChoices
ToLowerCase(str) == [i \in 1..Len(str) |-> IF str[i] = "U" THEN "u" ELSE str[i]]

CharClass(c) ==
    IF c \in Digits THEN "d" ELSE IF c \in Hangul THEN "H" ELSE IF c = " " THEN "s" ELSE "o"

\* /^(?:[H]{2}\d{2}[H]\d{4}|\d{2,3}[H]\d{4}|[H]{2}\d{2}\s?\d{4})$/ by character class
KR_PLATE_REGEX(str) ==
    LET cls == [i \in 1..Len(str) |-> CharClass(str[i])]
    IN  cls \in { <<"H", "H", "d", "d", "H", "d", "d", "d", "d">>,
                  <<"d", "d", "H", "d", "d", "d", "d">>,
                  <<"d", "d", "d", "H", "d", "d", "d", "d">>,
                  <<"H", "H", "d", "d", "d", "d", "d", "d">>,
                  <<"H", "H", "d", "d", "s", "d", "d", "d", "d">> }

PlateChoices == { <<"1", "2", "K", "3", "4", "5", "6">>,
                  <<" ", "1", "2", "K", "3", "4", "5", "6">>,
                  <<"1", "2">> }

EmailChoices == { <<"U", "@", "x">> }

PasswordChoices == { "secret" }

TokenChoices == { "token" }

HistoryChoices == { <<>>, <<"R0">> }

\* what POST /plates/verify can answer
Verifications == { [conflict |-> FALSE, message |-> "ok"],
                   [conflict |-> TRUE, message |-> "slot already reserved"] }

ReservationIds == { "R1" }

Bool(b) == IF b THEN "true" ELSE "false"

todayISO == CHOOSE d \in DateChoices : \A e \in DateChoices : d <= e


\* ------------------------------------------------------------------ state
VARIABLES
    step, loading, error,
    email, password, token,
    plate, plateValid, plateRegistered, plateHistory, plateVerified,
    date, sessionId, startTime, durationMin,   \* the selection
    occupiedSet, occFresh,                     \* occupiedSet; "a new Set object was stored"
    availabilityLoading, stripData,
    reservationId, myList,
    builds,                                    \* window builds whose Promise.all is pending
    myLoads,                                   \* pending loads of the my-reservations effect
    op,                                        \* the pending handler that holds `loading`
    netlog,                                    \* requests and answers of the last handleReserve call
    deps,                                      \* dependencies the effects last ran with
    probe,                                     \* a helper function's call: argument and result
    scanOpen,
    streamRef,                                 \* streamRef.current: a stream's number, 0 for null
    streams,                                   \* the streams acquired so far: TRUE while live
    opens,                                     \* openScanner calls waiting on an await
    snaps,                                     \* snapAndRecognize calls waiting on their timer
    torn,                                      \* the component has been unmounted
    adminToken, adminSessions, adminDeletingId, adminError,
                                               \* the administrator's token, sessions, deletingId, error
    lastConfirm,                               \* what window.confirm last answered
    deletes,                                   \* handleDelete calls waiting for the response
    adminStep, adminLoading, adminDate, lastUpdatedAt, autoRefresh,
    intervalRef,                               \* intervalRef.current: a timer's number, 0 for null
    timers,                                    \* the interval timers set so far, each with the
                                               \* load it calls and whether it is still active
    loads,                                     \* load calls waiting for the response
    gone,                                      \* the ids the store has deleted
    logins,                                    \* administrator logins waiting for the response
    adminDeps                                  \* dependencies the administrator's effects last ran with

loginVars == <<email, password, token>>

plateVars == <<plate, plateValid, plateRegistered, plateHistory, plateVerified>>

selVars == <<date, sessionId, startTime, durationMin>>

winVars == <<occupiedSet, occFresh, availabilityLoading, stripData, builds>>

listVars == <<reservationId, myList, myLoads>>

\* what the handlers of the reservation flow never touch
scanVars == <<scanOpen, streamRef, streams, opens, snaps, torn>>

dashVars == <<adminStep, adminLoading, adminDate, lastUpdatedAt, autoRefresh, intervalRef,
              timers, loads, logins, adminDeps>>

adminVars == <<adminToken, adminSessions, adminDeletingId, adminError, lastConfirm, deletes,
               gone, dashVars>>

auxVars == <<probe, scanVars, adminVars>>

vars == <<step, loading, error, loginVars, plateVars, selVars, winVars, listVars,
          op, netlog, deps,
          auxVars>>

\* the state of the reservation flow
flowVars == <<step, loading, error, loginVars, plateVars, selVars, winVars, listVars,
              op, netlog, deps>>

Pending == "pending"

NoResponses == [i \in 1..Len(DateRange(0)) |-> Pending]

Idle == [pc |-> "idle"]

NoProbe == [fn |-> "none"]

\* no scanner yet: useState(false), useRef(null)
ScannerClosed ==
    /\ scanOpen = FALSE
    /\ streamRef = 0
    /\ streams = <<>>
    /\ opens = <<>>
    /\ snaps = 0
    /\ torn = FALSE

\* the administrator's front end after construction
AdminClosed ==
    /\ adminToken = Null
    /\ adminSessions = <<>>
    /\ adminDeletingId = Null
    /\ adminError = Null
    /\ lastConfirm = "none"
    /\ deletes = <<>>
    /\ gone = {}
    /\ adminStep = 1
    /\ adminLoading = FALSE
    /\ adminDate = todayISO
    /\ lastUpdatedAt = Null
    /\ autoRefresh = TRUE
    /\ intervalRef = 0
    /\ timers = <<>>
    /\ loads = <<>>
    /\ logins = 0
    /\ adminDeps = <<>>

\* the state after construction, helper calls apart
Unmounted ==
    /\ ScannerClosed
    /\ step = 1
    /\ loading = FALSE
    /\ error = Null
    /\ email = <<>>
    /\ password = ""
    /\ token = Null
    /\ plate = <<>>
    /\ plateValid = Null
    /\ plateRegistered = Null
    /\ plateHistory = <<>>
    /\ plateVerified = FALSE
    /\ date = todayISO
    /\ sessionId = 1
    /\ startTime = SLOTS[1]
    /\ durationMin = 60
    /\ occupiedSet = {}
    /\ occFresh = FALSE
    /\ availabilityLoading = FALSE
    /\ stripData = <<>>
    /\ reservationId = Null
    /\ myList = <<>>
    /\ builds = <<>>
    /\ myLoads = 0
    /\ op = Idle
    /\ netlog = <<>>
    /\ deps = <<>>

Init == Unmounted /\ probe = NoProbe /\ AdminClosed

\* ---------------------------------------------------------------- effects
\* [plate], [token, refreshReservations <- email], [date, sessionId, startTime],
\* [durationMin, occupiedSet, startTime]
DepsNow == [plate |-> plate,
            my |-> <<token, email>>,
            win |-> <<date, sessionId, startTime>>,
            rec |-> <<durationMin, startTime>>]

Mounted == deps # <<>>

PlateDue == ~Mounted \/ deps.plate # DepsNow.plate

MyDue == ~Mounted \/ deps.my # DepsNow.my

\* variant of WinDue: occupiedSet is among the window effect's dependencies
WinDueOnOccupied == ~Mounted \/ occFresh \/ deps.win # DepsNow.win

WinDue == ~Mounted \/ deps.win # DepsNow.win

RecDue == ~Mounted \/ occFresh \/ deps.rec # DepsNow.rec

\* the scanner effect acts only on a render with the scanner open off step 2
ScanDue == scanOpen /\ step # 2

Quiescent == ~PlateDue /\ ~MyDue /\ ~WinDue /\ ~RecDue /\ ~ScanDue

\* closeScanner(): stop the tracks of the stream held, forget it, setScanOpen(false)
closeScanner ==
    /\ streams' = IF streamRef # 0 THEN [streams EXCEPT ![streamRef] = FALSE] ELSE streams
    /\ streamRef' = 0
    /\ scanOpen' = IF torn THEN scanOpen ELSE FALSE

\* if (!plate) setPlateValid(null) else setPlateValid(KR_PLATE_REGEX.test(...))
PlateValidOf(p) == IF p = <<>> THEN Null ELSE Bool(KR_PLATE_REGEX(StripSpaces(p)))

\* return () => { cancelled = true }
Cleanup(bs) == [i \in 1..Len(bs) |-> [bs[i] EXCEPT !.cancelled = TRUE]]

\* The closure of one run of the window effect.  Of the captured startTime the
\* continuation reads only SLOTS.includes(startTime); both are immutable, so the
\* closure keeps that test's value (slotKnown).
NewBuild == [date |-> date, sessionId |-> sessionId,
             slotKnown |-> startTime \in SeqRange(SLOTS),
             cancelled |-> FALSE, got |-> NoResponses]

\* One commit: the effects whose dependencies changed run, in declaration order,
\* on the values of this render; what they set is rendered by the next commit.
RunEffects ==
    /\ ~torn
    /\ ~Quiescent
    /\ plateValid' = IF PlateDue THEN PlateValidOf(plate) ELSE plateValid
    /\ myLoads' = IF MyDue /\ token # Null /\ email # <<>> THEN myLoads + 1 ELSE myLoads
    /\ IF WinDue
         THEN /\ builds' = Append(Cleanup(builds), NewBuild)
              /\ availabilityLoading' = TRUE
              /\ error' = Null
         ELSE UNCHANGED <<builds, availabilityLoading, error>>
    /\ startTime' = IF RecDue THEN Reconciled(startTime, durationMin, occupiedSet)
                    ELSE startTime
    /\ IF ScanDue THEN closeScanner ELSE UNCHANGED <<scanOpen, streamRef, streams>>
    /\ deps' = DepsNow
    /\ occFresh' = FALSE
    /\ UNCHANGED <<probe, adminVars, opens, snaps, torn,
                   step, loading, loginVars, plate, plateRegistered, plateHistory,
                   plateVerified, date, sessionId, durationMin, occupiedSet, stripData,
                   reservationId, myList, op, netlog>>

\* the my-reservations effect's load(): setMyList(list)
MyLoadResolve(list) ==
    /\ Quiescent
    /\ myLoads > 0
    /\ myLoads' = myLoads - 1
    /\ myList' = list
    /\ UNCHANGED <<auxVars, step, loading, error, loginVars, plateVars, selVars, winVars,
                   reservationId, op, netlog, deps>>

MyLoadReject(msg) ==
    /\ Quiescent
    /\ myLoads > 0
    /\ myLoads' = myLoads - 1
    /\ error' = msg
    /\ UNCHANGED <<auxVars, step, loading, loginVars, plateVars, selVars, winVars,
                   reservationId, myList, op, netlog, deps>>

\* ------------------------------------------------------- login and plate
onEmailChange(e) ==
    /\ step = 1
    /\ email' = e
    /\ UNCHANGED <<auxVars, step, loading, error, password, token, plateVars, selVars, winVars,
                   listVars, op, netlog, deps>>

onPasswordChange(pw) ==
    /\ step = 1
    /\ password' = pw
    /\ UNCHANGED <<auxVars, step, loading, error, email, token, plateVars, selVars, winVars,
                   listVars, op, netlog, deps>>

canNextFromLogin == email # <<>> /\ password # ""

canNextFromPlate == plateValid = "true"

handleLogin ==
    /\ step = 1 /\ canNextFromLogin /\ ~loading
    /\ loading' = TRUE
    /\ error' = Null
    /\ op' = [pc |-> "login"]
    /\ UNCHANGED <<auxVars, step, loginVars, plateVars, selVars, winVars, listVars, netlog, deps>>

LoginResolve(issuedToken) ==
    /\ Quiescent
    /\ op.pc = "login"
    /\ token' = issuedToken
    /\ plateHistory' = <<>>
    /\ plateRegistered' = Null
    /\ plateVerified' = FALSE
    /\ error' = Null
    /\ step' = 2
    /\ loading' = FALSE
    /\ op' = Idle
    /\ UNCHANGED <<auxVars, email, password, plate, plateValid, selVars, winVars, listVars, netlog, deps>>

LoginReject(msg) ==
    /\ Quiescent
    /\ op.pc = "login"
    /\ error' = msg
    /\ loading' = FALSE
    /\ op' = Idle
    /\ UNCHANGED <<auxVars, step, loginVars, plateVars, selVars, winVars, listVars, netlog, deps>>

handlePlateChange(value) ==
    /\ step = 2
    /\ plate' = value
    /\ plateVerified' = FALSE
    /\ plateRegistered' = Null
    /\ plateHistory' = <<>>
    /\ error' = Null
    /\ UNCHANGED <<auxVars, step, loading, loginVars, plateValid, selVars, winVars, listVars,
                   op, netlog, deps>>

handleVerifyPlate ==
    /\ step = 2 /\ canNextFromPlate /\ ~loading
    /\ IF token = Null
         THEN UNCHANGED <<error, plateVerified, loading, op>>
         ELSE IF plateValid # "true"
           THEN /\ error' = "check the plate format"
                /\ plateVerified' = FALSE
                /\ UNCHANGED <<loading, op>>
           ELSE /\ loading' = TRUE
                /\ error' = Null
                /\ op' = [pc |-> "lookup", plate |-> Trim(plate)]
                /\ UNCHANGED plateVerified
    /\ UNCHANGED <<auxVars, step, loginVars, plate, plateValid, plateRegistered, plateHistory,
                   selVars, winVars, listVars, netlog, deps>>

LookupResolve(history) ==
    /\ Quiescent
    /\ op.pc = "lookup"
    /\ plateHistory' = history
    /\ plateRegistered' = Bool(Len(history) > 0)
    /\ plateVerified' = TRUE
    /\ error' = Null
    /\ step' = 3
    /\ loading' = FALSE
    /\ op' = Idle
    /\ UNCHANGED <<auxVars, loginVars, plate, plateValid, selVars, winVars, listVars, netlog, deps>>

LookupReject(msg) ==
    /\ Quiescent
    /\ op.pc = "lookup"
    /\ plateVerified' = FALSE
    /\ error' = msg
    /\ loading' = FALSE
    /\ op' = Idle
    /\ UNCHANGED <<auxVars, step, loginVars, plate, plateValid, plateRegistered, plateHistory,
                   selVars, winVars, listVars, netlog, deps>>

\* --------------------------------------------------------- schedule page
onDateChange(d) ==
    /\ step = 3
    /\ date' = d
    /\ UNCHANGED <<auxVars, step, loading, error, loginVars, plateVars, sessionId, startTime,
                   durationMin, winVars, listVars, op, netlog, deps>>

onSessionChange(s) ==
    /\ step = 3
    /\ sessionId' = s
    /\ UNCHANGED <<auxVars, step, loading, error, loginVars, plateVars, date, startTime,
                   durationMin, winVars, listVars, op, netlog, deps>>

onDurationChange(dur) ==
    /\ step = 3
    /\ durationMin' = dur
    /\ UNCHANGED <<auxVars, step, loading, error, loginVars, plateVars, date, sessionId,
                   startTime, winVars, listVars, op, netlog, deps>>

\* variant of SlotDisabled: only an occupied slot is disabled
SlotDisabledWhenOccupied(slot) == slot \in occupiedSet

\* disabled = occupiedSet.has(slot) || toMinutes(slot) + durationMin > dayEndMinutes
SlotDisabled(slot) == slot \in occupiedSet \/ toMinutes(slot) + durationMin > DAY_END_MINUTES

onStartTimeChange(slot) ==
    /\ step = 3
    /\ ~SlotDisabled(slot)
    /\ startTime' = slot
    /\ UNCHANGED <<auxVars, step, loading, error, loginVars, plateVars, date, sessionId,
                   durationMin, winVars, listVars, op, netlog, deps>>

\* ------------------------------------------------- window build completion
RemoveAt(s, i) == [j \in 1..(Len(s) - 1) |-> IF j < i THEN s[j] ELSE s[j + 1]]

\* the array Promise.all resolves with: one {iso, sessions} per date of the
\* range, in the order of the range
Responses(b, got) == [i \in 1..Len(got) |-> [iso |-> DateRange(b.date)[i], sessions |-> got[i]]]

\* what every date of the range of build b answers from the store snapshot k
Snapshot(b, k) == [j \in 1..Len(NoResponses) |-> WorldPayload(k, DateRange(b.date)[j])]

\* variant of AfterAll: the continuation does not look at `cancelled`
AfterAllUnguarded(b, responses) ==
    /\ stripData' = Strips(responses, b.sessionId)
    /\ occupiedSet' = NextOccupied(responses, b.date, b.sessionId)
    /\ occFresh' = TRUE
    /\ startTime' = IF ~b.slotKnown THEN SLOTS[1] ELSE startTime
    /\ availabilityLoading' = FALSE

\* variant of AfterAll: the new labels are added to the set already held
AfterAllMerging(b, responses) ==
    IF b.cancelled
      THEN UNCHANGED <<stripData, occupiedSet, occFresh, startTime, availabilityLoading>>
      ELSE /\ stripData' = Strips(responses, b.sessionId)
           /\ occupiedSet' = occupiedSet \cup NextOccupied(responses, b.date, b.sessionId)
           /\ occFresh' = TRUE
           /\ startTime' = IF ~b.slotKnown THEN SLOTS[1] ELSE startTime
           /\ availabilityLoading' = FALSE

\* the continuation of load() after Promise.all has resolved
AfterAll(b, responses) ==
    IF b.cancelled
      THEN UNCHANGED <<stripData, occupiedSet, occFresh, startTime, availabilityLoading>>
      ELSE /\ stripData' = Strips(responses, b.sessionId)
           /\ occupiedSet' = NextOccupied(responses, b.date, b.sessionId)
           /\ occFresh' = TRUE
           /\ startTime' = IF ~b.slotKnown THEN SLOTS[1] ELSE startTime
           /\ availabilityLoading' = FALSE

\* variant of AfterFail: the failure is swallowed
AfterFailSilent(b, msg) ==
    /\ error' = error
    /\ availabilityLoading' = IF b.cancelled THEN availabilityLoading ELSE FALSE

\* the catch and finally blocks of load() after Promise.all has rejected
AfterFail(b, msg) ==
    /\ error' = IF b.cancelled THEN error ELSE msg
    /\ availabilityLoading' = IF b.cancelled THEN availabilityLoading ELSE FALSE

\* every fetch of build i has answered, from the store snapshot k
WindowResolve(i, k) ==
    /\ Quiescent
    /\ i \in 1..Len(builds)
    /\ builds' = RemoveAt(builds, i)
    /\ AfterAll(builds[i], Responses(builds[i], Snapshot(builds[i], k)))
    /\ UNCHANGED <<auxVars, step, loading, error, loginVars, plateVars, date, sessionId,
                   durationMin, listVars, op, netlog, deps>>

\* every fetch of build i has answered with the same list of session buckets
WindowAnswer(i, sessions) ==
    /\ Quiescent
    /\ i \in 1..Len(builds)
    /\ builds' = RemoveAt(builds, i)
    /\ AfterAll(builds[i], Responses(builds[i], [j \in 1..Len(NoResponses) |-> sessions]))
    /\ UNCHANGED <<auxVars, step, loading, error, loginVars, plateVars, date, sessionId,
                   durationMin, listVars, op, netlog, deps>>

\* a fetch of build i has failed
WindowReject(i, msg) ==
    /\ Quiescent
    /\ i \in 1..Len(builds)
    /\ builds' = RemoveAt(builds, i)
    /\ AfterFail(builds[i], msg)
    /\ UNCHANGED <<auxVars, step, loading, loginVars, plateVars, selVars, occupiedSet, occFresh,
                   stripData, listVars, op, netlog, deps>>

\* ------------------------------------------- the 14 fetches, one by one
PendingOf(b) == {j \in 1..Len(b.got) : b.got[j] = Pending}

\* listReservationsBySession(range[j]) of build i has answered.  Promise.all
\* resolves, with the answers in the order of the range, once none is pending.
FetchFulfil(i, j, sessions) ==
    /\ Quiescent
    /\ i \in 1..Len(builds)
    /\ j \in PendingOf(builds[i])
    /\ LET got == [builds[i].got EXCEPT ![j] = sessions]
       IN  IF PendingOf(builds[i]) = {j}
             THEN /\ builds' = RemoveAt(builds, i)
                  /\ AfterAll(builds[i], Responses(builds[i], got))
             ELSE /\ builds' = [builds EXCEPT ![i].got = got]
                  /\ UNCHANGED <<stripData, occupiedSet, occFresh, startTime,
                                 availabilityLoading>>
    /\ UNCHANGED <<auxVars, step, loading, error, loginVars, plateVars, date, sessionId,
                   durationMin, listVars, op, netlog, deps>>

\* listReservationsBySession(range[j]) of build i has failed: Promise.all rejects
\* at once, and what the other fetches answer later reaches no continuation.
FetchReject(i, j, msg) ==
    /\ Quiescent
    /\ i \in 1..Len(builds)
    /\ j \in PendingOf(builds[i])
    /\ builds' = RemoveAt(builds, i)
    /\ AfterFail(builds[i], msg)
    /\ UNCHANGED <<auxVars, step, loading, loginVars, plateVars, selVars, occupiedSet, occFresh,
                   stripData, listVars, op, netlog, deps>>

\* ------------------------------------------------------------ navigation
\* goToStep(next): setError(null); setStep(next)
goToStep(next) ==
    /\ error' = Null
    /\ step' = next

\* SchedulePage onBack
onBack ==
    /\ step = 3
    /\ goToStep(2)
    /\ UNCHANGED <<auxVars, loading, loginVars, plateVars, selVars, winVars, listVars, op, netlog, deps>>

\* SchedulePage onOpenHistory
handleGoMyReservations ==
    /\ step \in {3, 4}
    /\ goToStep(5)
    /\ UNCHANGED <<auxVars, loading, loginVars, plateVars, selVars, winVars, listVars, op, netlog, deps>>

\* setError(...) before goToStep(2) is overwritten by goToStep's setError(null)
handleReturnFromHistory ==
    /\ step = 5
    /\ IF plateVerified THEN goToStep(3) ELSE goToStep(2)
    /\ UNCHANGED <<auxVars, loading, loginVars, plateVars, selVars, winVars, listVars, op, netlog, deps>>

\* ---------------------------------------------------------- handleReserve
\* what the handler closes over: the state of the render it was created by
Closure == [plate |-> plate, email |-> email, date |-> date, sessionId |-> sessionId,
            startTime |-> startTime, durationMin |-> durationMin]

VerifyPayload(c) ==
    [plate |-> Trim(c.plate), date |-> c.date, startTime |-> c.startTime,
     endTime |-> endTime(c.startTime, c.durationMin), sessionId |-> c.sessionId]

\* variant of CreatePayload: the plate is sent as typed
CreatePayloadRaw(c) ==
    [sessionId |-> c.sessionId, plate |-> c.plate, date |-> c.date,
     startTime |-> c.startTime, endTime |-> endTime(c.startTime, c.durationMin),
     contactEmail |-> ToLowerCase(Trim(c.email))]

CreatePayload(c) ==
    [sessionId |-> c.sessionId, plate |-> Trim(c.plate), date |-> c.date,
     startTime |-> c.startTime, endTime |-> endTime(c.startTime, c.durationMin),
     contactEmail |-> ToLowerCase(Trim(c.email))]

Request(api, body) == [api |-> api, dir |-> "request", body |-> body]

Answer(api, body) == [api |-> api, dir |-> "answer", body |-> body]

Failure(api) == [api |-> api, dir |-> "failure", body |-> <<>>]

\* variant of Overruns: the check is missing
OverrunsNever(st, dur) == FALSE

\* toMinutes(startTime) + durationMin > DAY_END_MINUTES
Overruns(st, dur) == toMinutes(st) + dur > DAY_END_MINUTES

\* the submit button (disabled = loading) of the schedule page
handleReserve ==
    /\ step = 3 /\ ~loading
    /\ IF token = Null
         THEN /\ netlog' = <<>>
              /\ UNCHANGED <<step, error, loading, op>>
         ELSE IF ~plateVerified
           THEN /\ goToStep(2)
                /\ netlog' = <<>>
                /\ UNCHANGED <<loading, op>>
         ELSE IF Overruns(startTime, durationMin)
           THEN /\ error' = "end time exceeds business hours"
                /\ netlog' = <<>>
                /\ UNCHANGED <<step, loading, op>>
         ELSE /\ loading' = TRUE
              /\ error' = Null
              /\ op' = [pc |-> "verify", c |-> Closure]
              /\ netlog' = <<Request("verifySlot", VerifyPayload(Closure))>>
              /\ UNCHANGED step
    /\ UNCHANGED <<auxVars, loginVars, plateVars, selVars, winVars, listVars, deps>>

\* variant of AfterVerify: the reservation is created whatever the answer
AfterVerifyResubmit(verification) ==
    /\ op' = [pc |-> "create", c |-> op.c]
    /\ netlog' = netlog \o <<Answer("verifySlot", verification),
                             Request("createReservation", CreatePayload(op.c))>>
    /\ UNCHANGED <<plateRegistered, error, loading>>

\* after `await verifySlot(...)`: verification = [conflict, message]
AfterVerify(verification) ==
    IF verification.conflict
      THEN /\ plateRegistered' = "true"
           /\ error' = verification.message
           /\ loading' = FALSE
           /\ op' = Idle
           /\ netlog' = Append(netlog, Answer("verifySlot", verification))
      ELSE /\ op' = [pc |-> "create", c |-> op.c]
           /\ netlog' = netlog \o <<Answer("verifySlot", verification),
                                    Request("createReservation", CreatePayload(op.c))>>
           /\ UNCHANGED <<plateRegistered, error, loading>>

VerifyResolve(verification) ==
    /\ op.pc = "verify"
    /\ AfterVerify(verification)
    /\ UNCHANGED <<auxVars, step, loginVars, plate, plateValid, plateHistory, plateVerified,
                   selVars, winVars, listVars, deps>>

\* catch (err) { setError(err.message) } finally { setLoading(false) }
ReserveFailed(api, msg) ==
    /\ error' = msg
    /\ loading' = FALSE
    /\ op' = Idle
    /\ netlog' = Append(netlog, Failure(api))

VerifyReject(msg) ==
    /\ op.pc = "verify"
    /\ ReserveFailed("verifySlot", msg)
    /\ UNCHANGED <<auxVars, step, loginVars, plateVars, selVars, winVars, listVars, deps>>

\* setReservationId(reservation.id); await refreshReservations(), which returns
\* at once without email; then goToStep(4)
CreateResolve(id) ==
    /\ op.pc = "create"
    /\ reservationId' = id
    /\ IF op.c.email = <<>>
         THEN /\ goToStep(4)
              /\ loading' = FALSE
              /\ op' = Idle
              /\ netlog' = Append(netlog, Answer("createReservation", id))
         ELSE /\ op' = [pc |-> "refresh", c |-> op.c]
              /\ netlog' = netlog \o <<Answer("createReservation", id),
                                       Request("myReservations", ToLowerCase(op.c.email))>>
              /\ UNCHANGED <<step, error, loading>>
    /\ UNCHANGED <<auxVars, loginVars, plateVars, selVars, winVars, myList, myLoads, deps>>

CreateReject(msg) ==
    /\ op.pc = "create"
    /\ ReserveFailed("createReservation", msg)
    /\ UNCHANGED <<auxVars, step, loginVars, plateVars, selVars, winVars, listVars, deps>>

RefreshResolve(list) ==
    /\ op.pc = "refresh"
    /\ myList' = list
    /\ goToStep(4)
    /\ loading' = FALSE
    /\ op' = Idle
    /\ netlog' = Append(netlog, Answer("myReservations", list))
    /\ UNCHANGED <<auxVars, loginVars, plateVars, selVars, winVars, reservationId, myLoads, deps>>

RefreshReject(msg) ==
    /\ op.pc = "refresh"
    /\ ReserveFailed("myReservations", msg)
    /\ UNCHANGED <<auxVars, step, loginVars, plateVars, selVars, winVars, listVars, deps>>

\* --------------------------------------------------------- specification
\* a user event is handled on a rendered page whose effects have run
CanInput == Quiescent /\ Len(builds) < MaxInFlight

\* login and plate verification, with the plates, histories and lists given
Funnel(plates, histories, lists) ==
    \/ \E e \in EmailChoices : Quiescent /\ onEmailChange(e)
    \/ \E pw \in PasswordChoices : Quiescent /\ onPasswordChange(pw)
    \/ Quiescent /\ handleLogin
    \/ \E t \in TokenChoices : LoginResolve(t)
    \/ \E msg \in ErrMessages : LoginReject(msg)
    \/ \E v \in plates : Quiescent /\ handlePlateChange(v)
    \/ Quiescent /\ handleVerifyPlate
    \/ \E h \in histories : LookupResolve(h)
    \/ \E msg \in ErrMessages : LookupReject(msg)
    \/ \E l \in lists : MyLoadResolve(l)
    \/ \E msg \in ErrMessages : MyLoadReject(msg)

Schedule ==
    \/ \E d \in DateChoices : CanInput /\ onDateChange(d)
    \/ \E s \in SessionChoices : CanInput /\ onSessionChange(s)
    \/ \E dur \in DurationChoices : CanInput /\ onDurationChange(dur)
    \/ \E slot \in SlotChoices : CanInput /\ onStartTimeChange(slot)
    \/ \E i \in 1..MaxInFlight, k \in Worlds : WindowResolve(i, k)
    \/ \E i \in 1..MaxInFlight, msg \in ErrMessages : WindowReject(i, msg)

\* The schedule page: the user logs in, verifies a plate and then works on the
\* schedule page while window builds come and go.
Next ==
    \/ RunEffects
    \/ Funnel({<<"1", "2", "K", "3", "4", "5", "6">>, <<"1", "2">>}, {<<>>}, {<<>>})
    \/ Schedule

Spec == Init /\ [][Next]_vars

\* One window build at a time, fetch by fetch: the user acts only while no build
\* and no list load is in flight, moves to one other date, and the store answers
\* from one snapshot.
NoBuildInFlight == builds = <<>>

FetchDateChoices == {d \in DateChoices : d # todayISO}

NextFetch ==
    \/ RunEffects
    \/ NoBuildInFlight /\ Funnel({<<"1", "2", "K", "3", "4", "5", "6">>}, {<<>>}, {<<>>})
    \/ \E d \in FetchDateChoices :
          NoBuildInFlight /\ myLoads = 0 /\ Quiescent /\ onDateChange(d)
    \/ \E i \in 1..MaxInFlight, j \in 1..Len(NoResponses) :
          FetchFulfil(i, j, WorldPayload(FetchWorld, DateRange(builds[i].date)[j]))
    \/ \E i \in 1..MaxInFlight, j \in 1..Len(NoResponses), msg \in ErrMessages :
          FetchReject(i, j, msg)

SpecFetch == Init /\ [][NextFetch]_vars

\* handleReserve on any render of the schedule page: the selection, the plate
\* check and the email are drawn from their sets, the user keeps editing the
\* selection and leaving the page while the requests are in flight.  The
\* effects are not run here: of what they write the handler reads only the
\* selection, which ranges over every value, also over a start time that the
\* reconciliation effect has not moved yet.
ReserveSlots == {<<9, 0>>, <<21, 30>>}

InitReserve ==
    /\ step = 3
    /\ loading = FALSE
    /\ error = Null
    /\ email \in EmailChoices \cup {<<>>}
    /\ password \in PasswordChoices
    /\ token \in TokenChoices
    /\ plate \in {v \in PlateChoices : KR_PLATE_REGEX(StripSpaces(v))}
    /\ plateValid = "true"
    /\ plateRegistered = Null
    /\ plateHistory = <<>>
    /\ plateVerified \in BOOLEAN
    /\ date = todayISO
    /\ sessionId = 1
    /\ startTime \in ReserveSlots
    /\ durationMin \in DurationChoices
    /\ occupiedSet = {}
    /\ occFresh = FALSE
    /\ availabilityLoading = FALSE
    /\ stripData = <<>>
    /\ reservationId = Null
    /\ myList = <<>>
    /\ builds = <<>>
    /\ myLoads = 0
    /\ op = Idle
    /\ netlog = <<>>
    /\ deps = <<>>
    /\ probe = NoProbe
    /\ ScannerClosed
    /\ AdminClosed

NextReserve ==
    \/ handleReserve
    \/ \E v \in Verifications : VerifyResolve(v)
    \/ \E msg \in ErrMessages : VerifyReject(msg)
    \/ \E id \in ReservationIds : CreateResolve(id)
    \/ \E msg \in ErrMessages : CreateReject(msg)
    \/ \E l \in HistoryChoices : RefreshResolve(l)
    \/ \E msg \in ErrMessages : RefreshReject(msg)
    \/ \E d \in DateChoices : onDateChange(d)
    \/ \E st \in ReserveSlots : onStartTimeChange(st)
    \/ \E dur \in DurationChoices : onDurationChange(dur)
    \/ onBack
    \/ handleGoMyReservations
    \/ handleReturnFromHistory

SpecReserve == InitReserve /\ [][NextReserve]_vars

\* The reconciliation effect as a function of the render it runs on: the
\* selection and the occupied set are drawn from their sets and the component
\* mounts on them.  WholeDayPlus is a duration that no slot of the day fits.
WholeDayPlus == (END_HOUR - START_HOUR) * 60 + SLOT_MINUTES

OccupiedChoices ==
    { {}, SeqRange(SLOTS),
      Walk(toMinutes(<<20, 0>>), DAY_END_MINUTES),
      Walk(toMinutes(<<9, 30>>), DAY_END_MINUTES),
      Walk(toMinutes(<<9, 0>>), toMinutes(<<12, 0>>)),
      {<<19, 30>>, <<21, 0>>} }

InitReconcile ==
    /\ step = 1
    /\ loading = FALSE
    /\ error = Null
    /\ email = <<>>
    /\ password = ""
    /\ token = Null
    /\ plate = <<>>
    /\ plateValid = Null
    /\ plateRegistered = Null
    /\ plateHistory = <<>>
    /\ plateVerified = FALSE
    /\ date = todayISO
    /\ sessionId = 1
    /\ startTime \in SeqRange(SLOTS)
    /\ durationMin \in SeqRange(DURATION_OPTIONS) \cup {WholeDayPlus}
    /\ occupiedSet \in OccupiedChoices
    /\ occFresh = FALSE
    /\ availabilityLoading = FALSE
    /\ stripData = <<>>
    /\ reservationId = Null
    /\ myList = <<>>
    /\ builds = <<>>
    /\ myLoads = 0
    /\ op = Idle
    /\ netlog = <<>>
    /\ deps = <<>>
    /\ probe = NoProbe
    /\ ScannerClosed
    /\ AdminClosed

NextReconcile == RunEffects

SpecReconcile == InitReconcile /\ [][NextReconcile]_vars

\* The occupancy expansion as a function of what the server answers: the mount
\* build is answered, for every date, by one list of buckets whose reservations
\* lie on the 30-minute grid.
GridTimes == {fromMinutes(m) : m \in {x \in (START_HOUR * 60)..DAY_END_MINUTES :
                                          x % SLOT_MINUTES = 0}}

GridReservations ==
    {[startTime |-> a, endTime |-> b] : a, b \in GridTimes} \ 
    {r \in [startTime : GridTimes, endTime : GridTimes] :
        toMinutes(r.endTime) <= toMinutes(r.startTime)}

GridPairs ==
    {<<Res(9, 0, 10, 0), Res(9, 30, 11, 0)>>, <<Res(10, 0, 11, 30), Res(20, 0, 22, 0)>>,
     <<Res(13, 0, 13, 30), Res(13, 30, 14, 0)>>, <<Res(9, 0, 22, 0), Res(12, 0, 12, 30)>>}

GridSessions ==
    {<<Bucket(1, <<r>>)>> : r \in GridReservations}
    \cup {<<Bucket(2, <<Res(9, 0, 9, 30)>>), Bucket(1, rs)>> : rs \in GridPairs}
    \cup {<<>>, <<Bucket(2, <<Res(9, 0, 10, 0)>>)>>}

NextOccupancy ==
    \/ RunEffects
    \/ \E sessions \in GridSessions : WindowAnswer(1, sessions)

SpecOccupancy == Init /\ [][NextOccupancy]_vars

\* ------------------------------------------------------ error messages
\* A response is its status and its body; a body is null (no stream) or a
\* stream with its raw text and, when the text is JSON, the value it parses to.
Absent == [t |-> "absent"]

Str(v) == [t |-> "string", v |-> v]

Arr(v) == [t |-> "array", v |-> v]

NullBody == [stream |-> FALSE, text |-> "", json |-> FALSE]

TextBody(text) == [stream |-> TRUE, text |-> text, json |-> FALSE]

JsonBody(text, detail, message) ==
    [stream |-> TRUE, text |-> text, json |-> TRUE,
     data |-> [detail |-> detail, message |-> message]]

DetailChoices ==
    {Absent, Str("detail"), Arr(<<>>), Arr(<<[msg |-> Str("first")], [msg |-> Str("second")]>>),
     Arr(<<[msg |-> Absent]>>)}

BodyChoices ==
    {NullBody, TextBody(""), TextBody("Bad Gateway")}
    \cup {JsonBody("{...}", d, m) : d \in DetailChoices, m \in {Absent, Str("message")}}

StatusChoices == {404, 500}

ErrorResponses == [status : StatusChoices, body : BodyChoices]

\* what a promise settles to
Fulfilled(v) == [settled |-> "fulfilled", value |-> v]

Rejected(e) == [settled |-> "rejected", reason |-> e]

\* `요청이 실패했습니다. (status ${res.status})`
GenericMessage(status) == [generic |-> status]

Message(text) == [text |-> text]

\* res.json(): reads the stream to its end, then parses
ResJson(res) ==
    IF res.body.json THEN Fulfilled(res.body.data) ELSE Rejected("SyntaxError")

\* bodyUsed after a read: a stream that was read is used, a null body never is
BodyUsed(res) == res.body.stream

\* res.text(): rejects with a TypeError on a body that was read before
ResText(res, used) ==
    IF used THEN Rejected("TypeError") ELSE Fulfilled(res.body.text)

\* the try block of extractError: the message found in the parsed body, if any
FromJson(data) ==
    IF data.detail.t = "string" THEN Str(data.detail.v)
    ELSE IF data.detail.t = "array" /\ Len(data.detail.v) > 0
              /\ data.detail.v[1].msg.t = "string"
      THEN Str(data.detail.v[1].msg.v)
    ELSE IF data.message.t = "string" THEN Str(data.message.v)
    ELSE Absent

\* const text = await res.text(); return text || generic
TextOrGeneric(res, used) ==
    LET text == ResText(res, used)
    IN  IF text.settled = "rejected" THEN text
        ELSE IF text.value # "" THEN Fulfilled(Message(text.value))
        ELSE Fulfilled(GenericMessage(res.status))

extractError(res) ==
    LET parsed == ResJson(res)
        found == IF parsed.settled = "fulfilled" THEN FromJson(parsed.value) ELSE Absent
    IN  IF found.t = "string" THEN Fulfilled(Message(found.v))
        ELSE TextOrGeneric(res, BodyUsed(res))

\* ------------------------------------------- the administrator's deletes
MaxDeletes == 2

AdminRes(id, sid) == [id |-> id, sessionId |-> sid]

AdminBucket(sid, rs) == [sessionId |-> sid, reservations |-> rs]

\* what the dashboard may hold when a delete starts; reservation ids are unique
\* in the store, the last list shows that the update does not rely on it
AdminSessionChoices ==
    { <<AdminBucket(1, <<AdminRes("R1", 1), AdminRes("R2", 1)>>), AdminBucket(2, <<>>)>>,
      <<AdminBucket(1, <<AdminRes("R2", 1), AdminRes("R1", 1), AdminRes("R3", 1)>>),
        AdminBucket(2, <<AdminRes("R4", 2)>>)>>,
      <<AdminBucket(1, <<AdminRes("R1", 1)>>),
        AdminBucket(2, <<AdminRes("R2", 2), AdminRes("R1", 2)>>)>> }

\* the ids of the delete buttons on the dashboard
ShownIds(ss) == UNION {{ss[n].reservations[k].id : k \in 1..Len(ss[n].reservations)} :
                         n \in 1..Len(ss)}

DeleteFailed == "delete failed"

Keeps(id, r) == r.id # id

\* variant of WithoutReservation: only the first session is filtered
WithoutReservationInFirst(prev, id) ==
    [n \in 1..Len(prev) |->
        IF n = 1
          THEN [prev[n] EXCEPT !.reservations = SelectSeq(prev[n].reservations,
                                                           LAMBDA r : Keeps(id, r))]
          ELSE prev[n]]

\* prev.map((s) => ({...s, reservations: s.reservations.filter((r) => r.id !== id)}))
WithoutReservation(prev, id) ==
    [n \in 1..Len(prev) |->
        [prev[n] EXCEPT !.reservations = SelectSeq(prev[n].reservations,
                                                    LAMBDA r : Keeps(id, r))]]

\* handleDelete up to `await api.deleteReservation(id, token)`
handleDelete(id, ok) ==
    /\ id \in ShownIds(adminSessions)
    /\ adminDeletingId # id
    /\ Len(deletes) < MaxDeletes
    /\ IF adminToken = Null
         THEN UNCHANGED adminVars
         ELSE /\ lastConfirm' = IF ok THEN "ok" ELSE "cancel"
              /\ IF ok
                   THEN /\ adminDeletingId' = id
                        /\ adminError' = Null
                        /\ deletes' = Append(deletes, id)
                   ELSE UNCHANGED <<adminDeletingId, adminError, deletes>>
              /\ UNCHANGED <<adminToken, adminSessions, gone, dashVars>>
    /\ UNCHANGED <<probe, scanVars, flowVars>>

\* the DELETE request was acknowledged
DeleteResolve(i) ==
    /\ i \in 1..Len(deletes)
    /\ adminSessions' = WithoutReservation(adminSessions, deletes[i])
    /\ adminDeletingId' = Null
    /\ deletes' = RemoveAt(deletes, i)
    /\ gone' = gone \cup {deletes[i]}
    /\ UNCHANGED <<probe, scanVars, flowVars, adminToken, adminError, lastConfirm, dashVars>>

\* the DELETE request failed: setError(e.message || ...)
DeleteReject(i, msg) ==
    /\ i \in 1..Len(deletes)
    /\ adminError' = IF msg = "" THEN DeleteFailed ELSE msg
    /\ adminDeletingId' = Null
    /\ deletes' = RemoveAt(deletes, i)
    /\ UNCHANGED <<probe, scanVars, flowVars, adminToken, adminSessions, lastConfirm, gone,
                   dashVars>>

\* The dashboard of a logged-in administrator holding a day's reservations.
InitAdmin ==
    /\ Unmounted
    /\ probe = NoProbe
    /\ adminToken \in TokenChoices
    /\ adminSessions \in AdminSessionChoices
    /\ adminDeletingId = Null
    /\ adminError \in {Null, "request failed"}
    /\ lastConfirm = "none"
    /\ deletes = <<>>
    /\ gone = {}
    /\ adminStep = 2
    /\ adminLoading = FALSE
    /\ adminDate = todayISO
    /\ lastUpdatedAt = Null
    /\ autoRefresh = FALSE
    /\ intervalRef = 0
    /\ timers = <<>>
    /\ loads = <<>>
    /\ logins = 0
    /\ adminDeps = <<>>

NextAdmin ==
    \/ \E id \in ShownIds(adminSessions), ok \in BOOLEAN : handleDelete(id, ok)
    \/ \E i \in 1..MaxDeletes : DeleteResolve(i)
    \/ \E i \in 1..MaxDeletes, msg \in ErrMessages \cup {""} : DeleteReject(i, msg)

SpecAdmin == InitAdmin /\ [][NextAdmin]_vars

\* ----------------------------------------- the administrator's dashboard
MaxLoads == 2
MaxTimers == 2

LoadFailed == "load failed"

DatedRes(id, sid, d) == [id |-> id, sessionId |-> sid, date |-> d]

\* the reservations the store holds for a date, by session
StoreOf(d) ==
    IF d = todayISO
      THEN <<AdminBucket(1, <<DatedRes("R1", 1, d), DatedRes("R2", 1, d)>>), AdminBucket(2, <<>>)>>
      ELSE <<AdminBucket(1, <<>>), AdminBucket(2, <<DatedRes("R3", 2, d)>>)>>

\* GET /api/admin/reservations/by-session?date=d, on a store that deleted `g`
AdminAnswer(d, g) ==
    [n \in 1..Len(StoreOf(d)) |->
        [StoreOf(d)[n] EXCEPT !.reservations =
            SelectSeq(StoreOf(d)[n].reservations, LAMBDA r : r.id \notin g)]]

AdminDepsNow == [load |-> <<adminDate, adminStep, adminToken>>,
                 refresh |-> <<autoRefresh, adminStep, adminToken>>]

AdminMounted == adminDeps # <<>>

LoadDue == ~AdminMounted \/ adminDeps.load # AdminDepsNow.load

RefreshDue == ~AdminMounted \/ adminDeps.refresh # AdminDepsNow.refresh

AdminQuiescent == ~LoadDue /\ ~RefreshDue

\* the `load` of one render: it reads the date and the token of that render
LoadOf(d, t) == [date |-> d, token |-> t]

\* load(): nothing without a token; else setLoading(true), setError(null), the request
Calls(ld) == ld.token # Null

\* variant of Cleared: the timer keeps running
ClearedNever(ts, id) == ts

\* clearInterval(id)
Cleared(ts, id) == IF id \in 1..Len(ts) THEN [ts EXCEPT ![id].active = FALSE] ELSE ts

\* the cleanup the auto-refresh effect returned on its last run, if it returned one
AfterCleanup(ts) ==
    IF AdminMounted /\ adminDeps.cleanup THEN Cleared(ts, intervalRef) ELSE ts

\* One commit of the administrator's front end: the load effect, then the
\* auto-refresh effect with the cleanup of its last run first.
AdminEffects ==
    /\ ~AdminQuiescent
    /\ LET runs == LoadDue /\ adminStep = 2 /\ adminToken # Null
           installs == RefreshDue /\ adminStep = 2 /\ adminToken # Null
           ts == IF RefreshDue THEN AfterCleanup(timers) ELSE timers
       IN  /\ Len(loads) < MaxLoads \/ ~runs
           /\ Len(timers) < MaxTimers \/ ~(installs /\ autoRefresh)
           /\ loads' = IF runs
                          THEN Append(loads, [date |-> adminDate, served |-> FALSE, answer |-> <<>>])
                          ELSE loads
           /\ adminLoading' = IF runs THEN TRUE ELSE adminLoading
           /\ adminError' = IF runs THEN Null ELSE adminError
           /\ IF installs /\ autoRefresh
                THEN /\ timers' = Append(Cleared(ts, intervalRef),
                                         [active |-> TRUE, load |-> LoadOf(adminDate, adminToken)])
                     /\ intervalRef' = Len(timers) + 1
                ELSE IF installs
                  THEN /\ timers' = Cleared(ts, intervalRef)
                       /\ intervalRef' = 0
                  ELSE /\ timers' = ts
                       /\ intervalRef' = intervalRef
           /\ adminDeps' = [load |-> AdminDepsNow.load, refresh |-> AdminDepsNow.refresh,
                            cleanup |-> IF RefreshDue THEN installs /\ autoRefresh
                                        ELSE adminDeps.cleanup]
    /\ UNCHANGED <<probe, scanVars, flowVars, adminToken, adminSessions, adminDeletingId,
                   lastConfirm, deletes, gone, adminStep, adminDate, lastUpdatedAt,
                   autoRefresh, logins>>

\* handleLogin up to `await api.loginAdmin(...)`; the button is disabled while loading
AdminLogin ==
    /\ AdminQuiescent
    /\ adminStep = 1 /\ ~adminLoading
    /\ adminLoading' = TRUE
    /\ adminError' = Null
    /\ logins' = logins + 1
    /\ UNCHANGED <<probe, scanVars, flowVars, adminToken, adminSessions, adminDeletingId,
                   lastConfirm, deletes, gone, adminStep, adminDate, lastUpdatedAt,
                   autoRefresh, intervalRef, timers, loads, adminDeps>>

AdminLoginResolve(issuedToken) ==
    /\ AdminQuiescent
    /\ logins > 0
    /\ logins' = logins - 1
    /\ adminToken' = issuedToken
    /\ adminStep' = 2
    /\ adminLoading' = FALSE
    /\ UNCHANGED <<probe, scanVars, flowVars, adminSessions, adminDeletingId, adminError,
                   lastConfirm, deletes, gone, adminDate, lastUpdatedAt, autoRefresh,
                   intervalRef, timers, loads, adminDeps>>

AdminLoginReject(msg) ==
    /\ AdminQuiescent
    /\ logins > 0
    /\ logins' = logins - 1
    /\ adminError' = msg
    /\ adminLoading' = FALSE
    /\ UNCHANGED <<probe, scanVars, flowVars, adminToken, adminSessions, adminDeletingId,
                   lastConfirm, deletes, gone, adminStep, adminDate, lastUpdatedAt,
                   autoRefresh, intervalRef, timers, loads, adminDeps>>

\* the date input: setDate
onAdminDateChange(d) ==
    /\ AdminQuiescent
    /\ adminStep = 2
    /\ adminDate' = d
    /\ UNCHANGED <<probe, scanVars, flowVars, adminToken, adminSessions, adminDeletingId,
                   adminError, lastConfirm, deletes, gone, adminStep, adminLoading,
                   lastUpdatedAt, autoRefresh, intervalRef, timers, loads, logins, adminDeps>>

\* the toggle: setAutoRefresh
onToggleAutoRefresh ==
    /\ AdminQuiescent
    /\ adminStep = 2
    /\ autoRefresh' = ~autoRefresh
    /\ UNCHANGED <<probe, scanVars, flowVars, adminToken, adminSessions, adminDeletingId,
                   adminError, lastConfirm, deletes, gone, adminStep, adminLoading, adminDate,
                   lastUpdatedAt, intervalRef, timers, loads, logins, adminDeps>>

\* a call of `load` as the render `ld` made it
CallLoad(ld) ==
    /\ Len(loads) < MaxLoads
    /\ IF Calls(ld)
         THEN /\ adminLoading' = TRUE
              /\ adminError' = Null
              /\ loads' = Append(loads, [date |-> ld.date, served |-> FALSE, answer |-> <<>>])
         ELSE UNCHANGED <<adminLoading, adminError, loads>>
    /\ UNCHANGED <<probe, scanVars, flowVars, adminToken, adminSessions, adminDeletingId,
                   lastConfirm, deletes, gone, adminStep, adminDate, lastUpdatedAt,
                   autoRefresh, intervalRef, timers, logins, adminDeps>>

\* the refresh button, disabled while loading: the load of the current render
onRefresh ==
    /\ AdminQuiescent
    /\ adminStep = 2 /\ ~adminLoading
    /\ CallLoad(LoadOf(adminDate, adminToken))

\* 15 seconds have passed on an active timer: the load it was set with
Tick(i) ==
    /\ AdminQuiescent
    /\ i \in 1..Len(timers) /\ timers[i].active
    /\ CallLoad(timers[i].load)

\* the store answers a load from what it holds
LoadServe(i) ==
    /\ i \in 1..Len(loads) /\ ~loads[i].served
    /\ loads' = [loads EXCEPT ![i] = [date |-> loads[i].date, served |-> TRUE,
                                     answer |-> AdminAnswer(loads[i].date, gone)]]
    /\ UNCHANGED <<probe, scanVars, flowVars, adminToken, adminSessions, adminDeletingId,
                   adminError, lastConfirm, deletes, gone, adminStep, adminLoading, adminDate,
                   lastUpdatedAt, autoRefresh, intervalRef, timers, logins, adminDeps>>

\* the answer arrives: setSessions, setLastUpdatedAt, setLoading(false)
LoadResolve(i) ==
    /\ AdminQuiescent
    /\ i \in 1..Len(loads) /\ loads[i].served
    /\ adminSessions' = loads[i].answer
    /\ lastUpdatedAt' = "now"
    /\ adminLoading' = FALSE
    /\ loads' = RemoveAt(loads, i)
    /\ UNCHANGED <<probe, scanVars, flowVars, adminToken, adminDeletingId, adminError,
                   lastConfirm, deletes, gone, adminStep, adminDate, autoRefresh, intervalRef,
                   timers, logins, adminDeps>>

\* the request fails: setError(e.message || ...), setLoading(false)
LoadReject(i, msg) ==
    /\ AdminQuiescent
    /\ i \in 1..Len(loads) /\ ~loads[i].served
    /\ adminError' = IF msg = "" THEN LoadFailed ELSE msg
    /\ adminLoading' = FALSE
    /\ loads' = RemoveAt(loads, i)
    /\ UNCHANGED <<probe, scanVars, flowVars, adminToken, adminSessions, adminDeletingId,
                   lastConfirm, deletes, gone, adminStep, adminDate, lastUpdatedAt,
                   autoRefresh, intervalRef, timers, logins, adminDeps>>

\* The administrator logs in, changes the date, toggles the auto-refresh,
\* refreshes and deletes, while timers tick and the requests are answered.
NextDashboard ==
    \/ AdminEffects
    \/ AdminLogin
    \/ \E t \in TokenChoices : AdminLoginResolve(t)
    \/ \E msg \in ErrMessages : AdminLoginReject(msg)
    \/ \E d \in DateChoices : onAdminDateChange(d)
    \/ onToggleAutoRefresh
    \/ onRefresh
    \/ \E i \in 1..MaxTimers : Tick(i)
    \/ \E i \in 1..MaxLoads : LoadServe(i)
    \/ \E i \in 1..MaxLoads : LoadResolve(i)
    \/ \E i \in 1..MaxLoads, msg \in ErrMessages : LoadReject(i, msg)
    \/ \E id \in ShownIds(adminSessions) :
          AdminQuiescent /\ adminStep = 2 /\ deletes = <<>> /\ handleDelete(id, TRUE)
    \/ \E i \in 1..MaxDeletes : AdminQuiescent /\ DeleteResolve(i)
    \/ \E i \in 1..MaxDeletes, msg \in ErrMessages : AdminQuiescent /\ DeleteReject(i, msg)

SpecDashboard == Init /\ [][NextDashboard]_vars

\* The auto-refresh timer alone: login, the toggle, date changes, and the
\* loads of the effects and of the ticks with their answers.
NextTimers ==
    \/ AdminEffects
    \/ AdminLogin
    \/ \E t \in TokenChoices : AdminLoginResolve(t)
    \/ \E msg \in ErrMessages : AdminLoginReject(msg)
    \/ \E d \in DateChoices : onAdminDateChange(d)
    \/ onToggleAutoRefresh
    \/ \E i \in 1..MaxTimers : Tick(i)
    \/ \E i \in 1..MaxLoads : LoadServe(i)
    \/ \E i \in 1..MaxLoads : LoadResolve(i)

SpecTimers == Init /\ [][NextTimers]_vars

\* ----------------------------------------------------------- the scanner
MaxStreams == 2
MaxSnaps == 1

FAKE_PLATES ==
    { <<"1", "2", "K", "3", "4", "5", "6">>, <<"1", "2", "3", "K", "4", "5", "6", "7">>,
      <<"6", "8", "K", "1", "2", "3", "4">>,
      <<"K", "K", "1", "2", "K", "3", "4", "5", "6">> }

CameraBlocked == "camera blocked"

\* videoRef.current when getUserMedia answers: the element lives on the plate
\* page, a component defined outside App.tsx; it is there while the
\* scanner is open, and either there or not while it is closed
VideoChoices ==
    IF torn \/ step # 2 THEN {FALSE}
    ELSE IF scanOpen THEN {TRUE}
    ELSE BOOLEAN

\* openScanner up to `await getUserMedia(...)`
openScanner ==
    /\ ~torn /\ Quiescent
    /\ step = 2
    /\ Len(opens) + Len(streams) < MaxStreams
    /\ opens' = Append(opens, "getUserMedia")
    /\ UNCHANGED <<probe, adminVars, scanOpen, streamRef, streams, snaps, torn, flowVars>>

\* getUserMedia resolved: the stream is stored; with a video element the
\* handler waits for play(), without one it opens the scanner
MediaResolve(i, video) ==
    /\ torn \/ Quiescent
    /\ i \in 1..Len(opens) /\ opens[i] = "getUserMedia"
    /\ video \in VideoChoices
    /\ streams' = Append(streams, TRUE)
    /\ streamRef' = Len(streams) + 1
    /\ IF video
         THEN /\ opens' = [opens EXCEPT ![i] = "play"]
              /\ scanOpen' = scanOpen
         ELSE /\ opens' = RemoveAt(opens, i)
              /\ scanOpen' = IF torn THEN scanOpen ELSE TRUE
    /\ UNCHANGED <<probe, adminVars, snaps, torn, flowVars>>

\* play() resolved
PlayResolve(i) ==
    /\ torn \/ Quiescent
    /\ i \in 1..Len(opens) /\ opens[i] = "play"
    /\ opens' = RemoveAt(opens, i)
    /\ scanOpen' = IF torn THEN scanOpen ELSE TRUE
    /\ UNCHANGED <<probe, adminVars, streamRef, streams, snaps, torn, flowVars>>

\* getUserMedia or play() rejected: the catch block
ScannerReject(i) ==
    /\ torn \/ Quiescent
    /\ i \in 1..Len(opens)
    /\ opens' = RemoveAt(opens, i)
    /\ error' = IF torn THEN error ELSE CameraBlocked
    /\ UNCHANGED <<probe, adminVars, scanOpen, streamRef, streams, snaps, torn,
                   step, loading, loginVars, plateVars, selVars, winVars, listVars,
                   op, netlog, deps>>

\* PlateVerificationPage onCloseScanner
onCloseScanner ==
    /\ ~torn /\ Quiescent
    /\ step = 2 /\ scanOpen
    /\ closeScanner
    /\ UNCHANGED <<probe, adminVars, opens, snaps, torn, flowVars>>

\* snapAndRecognize up to the 600 ms timer
snapAndRecognize ==
    /\ ~torn /\ Quiescent
    /\ step = 2 /\ scanOpen
    /\ snaps < MaxSnaps
    /\ snaps' = snaps + 1
    /\ UNCHANGED <<probe, adminVars, scanOpen, streamRef, streams, opens, torn, flowVars>>

\* the timer fired: handlePlateChange(one of FAKE_PLATES); closeScanner()
SnapTimer(value) ==
    /\ torn \/ Quiescent
    /\ snaps > 0
    /\ snaps' = snaps - 1
    /\ IF torn
         THEN UNCHANGED <<plate, plateVerified, plateRegistered, plateHistory, error>>
         ELSE /\ plate' = value
              /\ plateVerified' = FALSE
              /\ plateRegistered' = Null
              /\ plateHistory' = <<>>
              /\ error' = Null
    /\ closeScanner
    /\ UNCHANGED <<probe, adminVars, opens, torn, step, loading, loginVars, plateValid, selVars, winVars,
                   listVars, op, netlog, deps>>

\* PlateVerificationPage onBack
onBackToLogin ==
    /\ ~torn /\ Quiescent
    /\ step = 2
    /\ goToStep(1)
    /\ UNCHANGED <<auxVars, loading, loginVars, plateVars, selVars, winVars, listVars,
                   op, netlog, deps>>

\* the component unmounts: every effect's cleanup runs
Teardown ==
    /\ ~torn /\ Mounted
    /\ torn' = TRUE
    /\ builds' = Cleanup(builds)
    /\ closeScanner
    /\ UNCHANGED <<probe, adminVars, opens, snaps, step, loading, error, loginVars, plateVars, selVars,
                   occupiedSet, occFresh, availabilityLoading, stripData, listVars,
                   op, netlog, deps>>

\* The plate page with its scanner: the user logs in, opens and closes the
\* scanner, takes snapshots, moves between the steps, and the page may go away.
NextScanner ==
    \/ RunEffects
    \/ ~torn /\ Funnel({<<"1", "2", "K", "3", "4", "5", "6">>}, {<<>>}, {<<>>})
    \/ ~torn /\ Quiescent /\ onBack
    \/ onBackToLogin
    \/ openScanner
    \/ \E i \in 1..MaxStreams, video \in BOOLEAN : MediaResolve(i, video)
    \/ \E i \in 1..MaxStreams : PlayResolve(i)
    \/ \E i \in 1..MaxStreams : ScannerReject(i)
    \/ onCloseScanner
    \/ snapAndRecognize
    \/ \E v \in FAKE_PLATES : SnapTimer(v)
    \/ Teardown

SpecScanner == Init /\ [][NextScanner]_vars

\* ----------------------------------------------------------------- claims
\* build i completes in this step
Completes(i) == i \in 1..Len(builds) /\ builds' = RemoveAt(builds, i)

\* the slots a selection of this duration may move to
FittingSlots(dur) == {s \in SeqRange(SLOTS) : toMinutes(s) + dur <= DAY_END_MINUTES}

FreeFittingSlots(dur, occ) == FittingSlots(dur) \ occ

\* C1: a window build that a later change of the selection has superseded
\* writes nothing when it completes, whether it resolves or fails and whatever
\* completed before it: strips, occupied set, error message, loading flag and
\* start time stay as they are; and a build that does commit is the one of the
\* current selection: its strips are centred on the selected date and the
\* occupied set is the one of the selected date and session in its answers.
StaleSuppression ==
    [][\A i \in 1..MaxInFlight :
          /\ (Completes(i) /\ builds[i].cancelled)
                => UNCHANGED <<stripData, occupiedSet, error, availabilityLoading, startTime>>
          /\ (Completes(i) /\ ~builds[i].cancelled /\ occFresh')
                => /\ stripData'[OFFSET_FIRST + 1].dateISO = date
                   /\ \E k \in Worlds :
                         occupiedSet' = Occupied(FindSession(WorldPayload(k, date), sessionId))]_vars

\* C1 witness: the build of the current selection has committed while a build
\* started for another date is still in flight, superseded
StaleStillInFlight ==
    /\ Len(builds) = 1
    /\ builds[1].cancelled
    /\ builds[1].date # date
    /\ stripData # <<>>
    /\ stripData[OFFSET_FIRST + 1].dateISO = date
    /\ ~availabilityLoading

\* C6 as claimed: once a committed window build has put the selected start time
\* into the occupied set and the effects have run, the selection is on an
\* occupied slot only if no free slot fits the duration.
OccupiedSelectionReassigned ==
    (Mounted /\ Quiescent /\ startTime \in occupiedSet)
        => FreeFittingSlots(durationMin, occupiedSet) = {}

\* C7: when the reconciliation effect runs on a selection that ends by closing
\* time, the start time is left as it is, also when it is in the occupied set.
NoReshuffleWhenValid ==
    [][(RunEffects /\ RecDue /\ toMinutes(startTime) + durationMin <= DAY_END_MINUTES)
          => startTime' = startTime]_vars

\* C7 witness: the effects have run on a selection that fits and is occupied
ValidOccupiedSelectionKept ==
    /\ Mounted /\ Quiescent /\ ~occFresh
    /\ startTime \in occupiedSet
    /\ toMinutes(startTime) + durationMin <= DAY_END_MINUTES
    /\ FreeFittingSlots(durationMin, occupiedSet) # {}

\* build i, not superseded, ends in this step without committing: a fetch failed
FailsNow(i) ==
    /\ i \in 1..Len(builds)
    /\ ~builds[i].cancelled
    /\ builds' = RemoveAt(builds, i)
    /\ ~occFresh'

\* the last pending fetch of build i is answered in this step
LastAnswerOf(i) ==
    /\ i \in 1..Len(builds)
    /\ Cardinality(PendingOf(builds[i])) = 1
    /\ builds' = RemoveAt(builds, i)
    /\ occFresh'

\* C4: when one of the 14 fetches of a window build that is not superseded
\* fails, whichever it is and however many of the others have answered, the
\* build commits nothing: strips and occupied set are the ones from before the
\* build (no step of the build other than its last answer changes them), the
\* error message is the failure's and the loading flag is back to false.
FailFastWindowBuild ==
    [][/\ \A i \in 1..MaxInFlight :
            FailsNow(i)
              => /\ UNCHANGED <<stripData, occupiedSet>>
                 /\ error' \in ErrMessages
                 /\ availabilityLoading' = FALSE
       /\ (stripData' # stripData \/ occupiedSet' # occupiedSet)
            => \E i \in 1..MaxInFlight : LastAnswerOf(i)]_vars

\* C4 witness: the build for the selected date has failed after some of its
\* fetches had answered; the strips on display are still those of the date
\* selected before
FailedBuildKeptOldWindow ==
    /\ builds = <<>>
    /\ Mounted /\ Quiescent
    /\ error \in ErrMessages
    /\ ~availabilityLoading
    /\ stripData # <<>>
    /\ stripData[OFFSET_FIRST + 1].dateISO # date

RequestsOf(log, api) == {n \in 1..Len(log) : log[n].api = api /\ log[n].dir = "request"}

\* C2: when verifySlot answers conflict = true, handleReserve sends nothing
\* more (the invocation has sent one verifySlot and no createReservation, and
\* no request is left in flight), leaves start time, date and session alone,
\* sets the error to the server's message, does not move the step, and
\* resets loading.
ConflictNeverRetried ==
    [][\A v \in Verifications :
          (v.conflict /\ VerifyResolve(v))
            => /\ RequestsOf(netlog', "createReservation") = {}
               /\ Cardinality(RequestsOf(netlog', "verifySlot")) = 1
               /\ op'.pc = "idle"
               /\ UNCHANGED <<startTime, date, sessionId, durationMin>>
               /\ error' = v.message
               /\ step' = step
               /\ loading' = FALSE]_vars

\* C2 witness: a conflict has been answered and the user is on the schedule
\* page with the server's message
ConflictShown ==
    /\ step = 3
    /\ op.pc = "idle"
    /\ ~loading
    /\ netlog # <<>>
    /\ netlog[Len(netlog)].dir = "answer"
    /\ netlog[Len(netlog)].api = "verifySlot"
    /\ netlog[Len(netlog)].body.conflict
    /\ error = netlog[Len(netlog)].body.message

\* the fields verifySlot and createReservation have in common
SlotOf(body) == <<body.plate, body.date, body.startTime, body.endTime, body.sessionId>>

\* C3: in the log of a handleReserve invocation every createReservation request
\* comes after a verifySlot request for the same plate, date, start time, end
\* time and session and directly after that request's answer, which reports no
\* conflict; a log with a failed verifySlot or a conflict has no
\* createReservation request.
VerifyBeforeCreate ==
    /\ \A n \in RequestsOf(netlog, "createReservation") :
          /\ n = 3
          /\ netlog[1] = Request("verifySlot", netlog[1].body)
          /\ SlotOf(netlog[1].body) = SlotOf(netlog[n].body)
          /\ netlog[2].api = "verifySlot" /\ netlog[2].dir = "answer"
          /\ ~netlog[2].body.conflict
    /\ (\E m \in 1..Len(netlog) :
            /\ netlog[m].api = "verifySlot"
            /\ \/ netlog[m].dir = "failure"
               \/ netlog[m].dir = "answer" /\ netlog[m].body.conflict)
          => RequestsOf(netlog, "createReservation") = {}

\* C3 witness: a reservation has been requested for a plate typed with a
\* blank, after the user has moved the selection away from the one verified
CreateSentAfterVerify ==
    /\ RequestsOf(netlog, "createReservation") # {}
    /\ plate # Trim(plate)
    /\ <<date, startTime>> # <<netlog[1].body.date, netlog[1].body.startTime>>

Span(r) ==
    {fromMinutes(m) : m \in {x \in toMinutes(r.startTime)..(toMinutes(r.endTime) - 1) :
                                (x - toMinutes(r.startTime)) % 30 = 0}}

\* the reservations of the selected session in a list of buckets
SelectedReservations(sessions) ==
    UNION {SeqRange(sessions[i].reservations) :
             i \in {x \in 1..Len(sessions) : sessions[x].sessionId = sessionId}}

\* C10: when a build commits answers whose reservations lie on the 30-minute
\* grid, the occupied set is the union, over the reservations of the selected
\* session, of the labels start, start + 30, ..., end - 30 (end-exclusive), and
\* every strip's free share is the one of that set.
OccupancyCoversSpan ==
    [][\A sessions \in GridSessions :
          WindowAnswer(1, sessions)
            => /\ occupiedSet' = UNION {Span(r) : r \in SelectedReservations(sessions)}
               /\ \A n \in 1..Len(stripData') :
                     stripData'[n].freePct =
                        FreePct(UNION {Span(r) : r \in SelectedReservations(sessions)})]_vars

\* C10 witness: the reservation 10:00-11:30 of the example has been expanded,
\* next to one that ends at closing time
ExampleSpanOccupied ==
    /\ builds = <<>>
    /\ stripData # <<>>
    /\ occupiedSet = {<<10, 0>>, <<10, 30>>, <<11, 0>>, <<20, 0>>, <<20, 30>>,
                      <<21, 0>>, <<21, 30>>}

\* C8: when the reconciliation effect runs on a selection that ends after
\* closing time, the new start time is the latest slot that fits the duration
\* and is not occupied, if there is one; else the earliest slot that fits,
\* occupied or not; else, no slot fitting, the start time it had.
FallbackOrder ==
    [][(RunEffects /\ RecDue /\ toMinutes(startTime) + durationMin > DAY_END_MINUTES)
          => IF FreeFittingSlots(durationMin, occupiedSet) # {}
               THEN /\ startTime' \in FreeFittingSlots(durationMin, occupiedSet)
                    /\ \A s \in FreeFittingSlots(durationMin, occupiedSet) :
                          toMinutes(s) <= toMinutes(startTime')
             ELSE IF FittingSlots(durationMin) # {}
               THEN /\ startTime' \in FittingSlots(durationMin)
                    /\ \A s \in FittingSlots(durationMin) :
                          toMinutes(startTime') <= toMinutes(s)
             ELSE startTime' = startTime]_vars

\* C8 witness: a selection has been moved to the earliest fitting slot because
\* every slot that fits its duration is occupied
MovedToEarliestFitting ==
    /\ Mounted
    /\ durationMin \in SeqRange(DURATION_OPTIONS)
    /\ FittingSlots(durationMin) # {}
    /\ FreeFittingSlots(durationMin, occupiedSet) = {}
    /\ startTime = SLOTS[1]
    /\ deps.rec # DepsNow.rec

\* ------------------------------------------- reservations off the grid
\* The occupancy expansion on what the server may answer when a reservation
\* does not start or end on a multiple of 30 minutes: times on the quarter
\* hour, at least one end of the reservation off the grid.
QUARTER == 15

QuarterTimes == {fromMinutes(m) : m \in {x \in (START_HOUR * 60)..DAY_END_MINUTES :
                                             x % QUARTER = 0}}

MaxSpan == 90

OffGridReservations ==
    {r \in [startTime : QuarterTimes, endTime : QuarterTimes] :
        /\ toMinutes(r.startTime) < toMinutes(r.endTime)
        /\ toMinutes(r.endTime) - toMinutes(r.startTime) <= MaxSpan
        /\ r \notin GridReservations}

OffGridSessions == {<<Bucket(1, <<r>>)>> : r \in OffGridReservations}

NextOffGrid ==
    \/ RunEffects
    \/ \E sessions \in OffGridSessions : WindowAnswer(1, sessions)

SpecOffGrid == Init /\ [][NextOffGrid]_vars

\* the 30 minutes of a grid slot and the span [startTime, endTime) of r overlap
Intersects(slot, r) ==
    /\ toMinutes(slot) < toMinutes(r.endTime)
    /\ toMinutes(r.startTime) < toMinutes(slot) + SLOT_MINUTES

\* C11 as claimed: when a build commits a reservation that is off the grid,
\* every grid slot whose 30 minutes intersect the reservation's span is in the
\* occupied set, and so is disabled on the schedule page.
PartialSlotBleed ==
    [][\A sessions \in OffGridSessions :
          WindowAnswer(1, sessions)
            => \A i \in 1..Len(SLOTS) :
                  Intersects(SLOTS[i], sessions[1].reservations[1])
                    => SLOTS[i] \in occupiedSet']_vars

\* ------------------------------------------------- free share of a day
\* The strip entry's free share on answers with any number of occupied labels:
\* one reservation anywhere in the 24 hours of the day, on the half hour, so
\* that a bucket yields from 0 up to 48 labels, more than the grid has slots.
DayTimes == {fromMinutes(m) : m \in {x \in 0..(24 * 60) : x % SLOT_MINUTES = 0}}

DayStarts == {t \in DayTimes : toMinutes(t) % (3 * 60) = 0}

DaySessions ==
    {<<Bucket(1, <<[startTime |-> a, endTime |-> b]>>)>> :
        a \in DayStarts, b \in DayTimes} \ 
    {<<Bucket(1, <<r>>)>> :
        r \in {q \in [startTime : DayStarts, endTime : DayTimes] :
                  toMinutes(q.endTime) <= toMinutes(q.startTime)}}

NextFreePct ==
    \/ RunEffects
    \/ \E sessions \in DaySessions \cup {<<>>} : WindowAnswer(1, sessions)

SpecFreePct == Init /\ [][NextFreePct]_vars

\* p is x rounded to the nearest integer, x = num / den
Nearest(p, num, den) == 2 * den * p - den <= 2 * num /\ 2 * num < 2 * den * p + den

\* C12: every strip entry of a committed build has freePct equal to
\* round(100 * max(0, 26 - n) / 26), n the number of occupied labels of its
\* bucket, an integer from 0 to 100, also when n is above 26.
FreePercentFormula ==
    [][(Completes(1) /\ occFresh')
          => \A n \in 1..Len(stripData') :
                LET free == IF Cardinality(occupiedSet') < 26
                              THEN 26 - Cardinality(occupiedSet') ELSE 0
                IN  /\ stripData'[n].freePct \in 0..100
                    /\ Nearest(stripData'[n].freePct, 100 * free, 26)]_vars

\* C12 witness: a bucket with more labels than the grid has slots is on display
\* with no free share
OverfullDayShown ==
    /\ builds = <<>>
    /\ Cardinality(occupiedSet) > 26
    /\ Len(stripData) = 14
    /\ stripData[OFFSET_FIRST + 1].freePct = 0

\* The free share as a function of the number of occupied labels: it is
\* computed for the first n and the first m labels of the day, n <= m.
MaxLabels == 48

Labels(n) == Walk(0, n * SLOT_MINUTES)

FreePctCalls ==
    {[fn |-> "freePct", arg |-> <<n, m>>, done |-> FALSE] :
        n \in 0..MaxLabels, m \in 0..MaxLabels} \ 
    {c \in [fn : {"freePct"}, arg : (0..MaxLabels) \X (0..MaxLabels), done : {FALSE}] :
        c.arg[1] > c.arg[2]}

CallFreePct ==
    /\ probe.fn = "freePct" /\ ~probe.done
    /\ probe' = [fn |-> "freePct", arg |-> probe.arg, done |-> TRUE,
                 out |-> <<FreePct(Labels(probe.arg[1])), FreePct(Labels(probe.arg[2]))>>]
    /\ UNCHANGED <<scanVars, adminVars, flowVars>>

\* C13: the free share does not grow with the number of occupied labels: for
\* n <= m occupied labels, freePct of n is at least freePct of m.
FreePercentMonotone ==
    (probe.fn = "freePct" /\ probe.done) => probe.out[1] >= probe.out[2]

\* C13 witness: the free share has been computed on both sides of the grid size
\* and is strictly smaller for the larger set
FreePercentDropped ==
    /\ probe.fn = "freePct" /\ probe.done
    /\ probe.arg[1] < 26 /\ probe.arg[2] > 26
    /\ probe.out[1] > probe.out[2]

\* The tier as a function of the free share, on every share from 0 to 100.
ColorCalls == {[fn |-> "color", arg |-> p, done |-> FALSE] : p \in 0..100}

CallColor ==
    /\ probe.fn = "color" /\ ~probe.done
    /\ probe' = [fn |-> "color", arg |-> probe.arg, done |-> TRUE, out |-> Color(probe.arg)]
    /\ UNCHANGED <<scanVars, adminVars, flowVars>>

\* C14: the tier is roomy (emerald) exactly for a free share above 66, moderate
\* (amber) exactly for one above 33 and at most 66, congested (rose) exactly
\* for one of at most 33; each share from 0 to 100 has one tier.
TierThresholds ==
    (probe.fn = "color" /\ probe.done)
      => /\ probe.out \in {"bg-emerald-500", "bg-amber-500", "bg-rose-500"}
         /\ (probe.out = "bg-emerald-500") <=> (probe.arg > 66)
         /\ (probe.out = "bg-amber-500") <=> (33 < probe.arg /\ probe.arg <= 66)
         /\ (probe.out = "bg-rose-500") <=> (probe.arg <= 33)

\* C14 witness: the share 66, one below the roomy tier, has been tiered moderate
BoundaryTiered ==
    probe.fn = "color" /\ probe.done /\ probe.arg = 66 /\ probe.out = "bg-amber-500"

\* C15: a window build that commits replaces the window state: the occupied
\* set is exactly the occupancy of the selected date and session in the answers
\* of that build, and the strips are exactly the 14 entries computed from those
\* same answers; nothing of an earlier build is kept.
CommitReplacesWindow ==
    [][\A i \in 1..MaxInFlight :
          (Completes(i) /\ ~builds[i].cancelled /\ occFresh')
            => \E k \in Worlds :
                  /\ occupiedSet' = Occupied(FindSession(WorldPayload(k, date), sessionId))
                  /\ Len(stripData') = 14
                  /\ stripData' = Strips(Responses(builds[i], Snapshot(builds[i], k)),
                                         builds[i].sessionId)]_vars

\* C15 witness: a window for another date and the second session is committed;
\* it holds the evening labels of that bucket and none of the morning labels
\* that the windows of the first session held
WindowReplaced ==
    /\ builds = <<>> /\ ~availabilityLoading
    /\ date # todayISO /\ sessionId = 2
    /\ Len(stripData) = 14
    /\ stripData[OFFSET_FIRST + 1].dateISO = date
    /\ occupiedSet = Occupied(Bucket(2, <<Res(19, 30, 22, 0)>>))

\* C16: when the answers of a build hold no bucket for the selected session,
\* every date of the window gets a free share of 100 in the roomy tier, the
\* occupied set of the selected date is empty, and the build completes
\* without an error.
AbsentBucketIsFree ==
    [][\A sessions \in GridSessions :
          (WindowAnswer(1, sessions)
             /\ \A n \in 1..Len(sessions) : sessions[n].sessionId # sessionId)
            => /\ occupiedSet' = {}
               /\ Len(stripData') = 14
               /\ \A n \in 1..14 : /\ stripData'[n].freePct = 100
                                    /\ stripData'[n].color = "bg-emerald-500"
               /\ error' = Null
               /\ ~availabilityLoading']_vars

\* C16 witness: a window has been committed all free, nothing occupied, no error
AllFreeWindowShown ==
    /\ builds = <<>> /\ ~availabilityLoading /\ error = Null
    /\ occupiedSet = {}
    /\ Len(stripData) = 14
    /\ \A n \in 1..14 : stripData[n].freePct = 100

\* The two grid builders, each called more than once.
GridCalls ==
    {[fn |-> f, arg |-> n, done |-> FALSE] : f \in {"daySlots", "slotsOfDay"}, n \in 1..2}

CallDaySlots ==
    /\ probe.fn = "daySlots" /\ ~probe.done
    /\ probe' = [fn |-> "daySlots", arg |-> probe.arg, done |-> TRUE, out |-> daySlots]
    /\ UNCHANGED <<scanVars, adminVars, flowVars>>

CallSlotsOfDay ==
    /\ probe.fn = "slotsOfDay" /\ ~probe.done
    /\ probe' = [fn |-> "slotsOfDay", arg |-> probe.arg, done |-> TRUE, out |-> slotsOfDay]
    /\ UNCHANGED <<scanVars, adminVars, flowVars>>

\* C17: every call of either grid builder returns the same 26 labels, the i-th
\* (from 0) being 09:00 plus i half hours, so strictly increasing from 09:00 to
\* 21:30; the user's daySlots and the administrator's slotsOfDay agree.
GridDeterminism ==
    (probe.fn \in {"daySlots", "slotsOfDay"} /\ probe.done)
      => /\ Len(probe.out) = 26
         /\ \A i \in 0..25 : probe.out[i + 1] = fromMinutes(9 * 60 + i * 30)
         /\ \A i \in 1..25 : toMinutes(probe.out[i]) < toMinutes(probe.out[i + 1])
         /\ probe.out[1] = <<9, 0>> /\ probe.out[26] = <<21, 30>>
         /\ probe.out = daySlots /\ probe.out = slotsOfDay

\* C17 witness: a second call of the administrator's builder has returned a
\* grid that ends at 21:30
AdminGridBuilt ==
    /\ probe.fn = "slotsOfDay" /\ probe.done /\ probe.arg = 2
    /\ probe.out[Len(probe.out)] = <<21, 30>>

\* C18 as claimed: once no openScanner call and no snapshot timer is pending
\* and the effects have run, a camera stream that was acquired and not stopped
\* exists only while the component is mounted with the scanner open on step 2.
CameraReleased ==
    (opens = <<>> /\ snaps = 0 /\ (torn \/ Quiescent))
      => ((\E n \in 1..Len(streams) : streams[n]) => (~torn /\ scanOpen /\ step = 2))

\* The error extraction on every response of a failed request.
ExtractCalls == {[fn |-> "extractError", arg |-> res, done |-> FALSE] : res \in ErrorResponses}

CallExtractError ==
    /\ probe.fn = "extractError" /\ ~probe.done
    /\ probe' = [fn |-> "extractError", arg |-> probe.arg, done |-> TRUE,
                 out |-> extractError(probe.arg)]
    /\ UNCHANGED <<scanVars, adminVars, flowVars>>

\* the message the priority order names for a response
MessageByPriority(res) ==
    LET found == IF res.body.json THEN FromJson(res.body.data) ELSE Absent
    IN  IF found.t = "string" THEN Message(found.v)
        ELSE IF res.body.text # "" THEN Message(res.body.text)
        ELSE GenericMessage(res.status)

\* C19 as claimed: for every response of a failed request the extraction yields
\* the JSON body's string detail, else the first detail entry's msg, else the
\* string message, else the raw text if it is not empty (also for a body that
\* is not JSON or holds none of the fields), else the generic message with the
\* status; reading the body for JSON first does not prevent the last two.
ErrorMessagePriority ==
    (probe.fn = "extractError" /\ probe.done)
      => probe.out = Fulfilled(MessageByPriority(probe.arg))

AllReservations(ss) ==
    UNION {{ss[n].reservations[k] : k \in 1..Len(ss[n].reservations)} : n \in 1..Len(ss)}

\* C20: a delete changes the list only once it is acknowledged. Starting it or
\* declining the dialog removes nothing; a failed request leaves the sessions as
\* they are and sets the error message; an acknowledged one removes the
\* reservations with the deleted id, and only those, from every session and
\* keeps the sessions and the order of what remains; either answer resets
\* deletingId to null.
DeleteAfterAcknowledgment ==
    [][/\ \A id \in {"R1", "R2", "R3", "R4"}, ok \in BOOLEAN :
            handleDelete(id, ok)
              => /\ adminSessions' = adminSessions
                 /\ ~ok => UNCHANGED <<adminDeletingId, adminError, deletes>>
       /\ \A i \in 1..MaxDeletes, msg \in ErrMessages \cup {""} :
            DeleteReject(i, msg)
              => /\ adminSessions' = adminSessions
                 /\ adminError' # Null /\ (msg # "" => adminError' = msg)
                 /\ adminDeletingId' = Null
       /\ \A i \in 1..MaxDeletes :
            DeleteResolve(i)
              => /\ adminDeletingId' = Null
                 /\ adminError' = adminError
                 /\ Len(adminSessions') = Len(adminSessions)
                 /\ \A n \in 1..Len(adminSessions) :
                       /\ adminSessions'[n].sessionId = adminSessions[n].sessionId
                       /\ \A r \in AllReservations(adminSessions) :
                             (\E k \in 1..Len(adminSessions'[n].reservations) :
                                  adminSessions'[n].reservations[k] = r)
                               <=> (r.id # deletes[i]
                                      /\ \E k \in 1..Len(adminSessions[n].reservations) :
                                             adminSessions[n].reservations[k] = r)
                       /\ \A k1, k2 \in 1..Len(adminSessions'[n].reservations) :
                             k1 < k2
                               => \E j1, j2 \in 1..Len(adminSessions[n].reservations) :
                                     /\ j1 < j2
                                     /\ adminSessions[n].reservations[j1] =
                                           adminSessions'[n].reservations[k1]
                                     /\ adminSessions[n].reservations[j2] =
                                           adminSessions'[n].reservations[k2]]_vars

\* C20 witness: the delete of R1 was acknowledged: R1 is gone from both
\* sessions that held it, R2 is still shown, nothing is pending
DeletedEverywhere ==
    /\ deletes = <<>> /\ adminDeletingId = Null /\ lastConfirm = "ok"
    /\ Len(adminSessions) = 2
    /\ adminSessions[1].reservations = <<>>
    /\ adminSessions[2].reservations = <<AdminRes("R2", 2)>>

\* C21: on the schedule page a slot button can be clicked exactly when its
\* label is not in the occupied set and the slot plus the duration ends by
\* closing time; so a start time chosen by a click is, at the click, free and
\* ends no later than closing time.
SlotButtonDisabling ==
    [][\A slot \in SlotChoices :
          /\ (step = 3 /\ CanInput)
                => ((ENABLED onStartTimeChange(slot))
                      <=> (slot \notin occupiedSet
                             /\ toMinutes(slot) + durationMin <= 22 * 60))
          /\ onStartTimeChange(slot)
                => (slot \notin occupiedSet /\ toMinutes(slot) + durationMin <= 22 * 60)]_vars

\* C21 witness: with part of the day occupied, a free slot that fits has been
\* chosen by a click
FreeSlotClicked ==
    /\ step = 3 /\ Quiescent
    /\ occupiedSet # {}
    /\ startTime # SLOTS[1] /\ startTime \in SlotChoices
    /\ startTime \notin occupiedSet
    /\ toMinutes(startTime) + durationMin <= 22 * 60

\* C22 as claimed: a tick of the auto-refresh timer requests the reservations
\* of the date that is selected when it ticks.
TickFollowsDate ==
    [][\A i \in 1..MaxTimers :
          (Tick(i) /\ Len(loads') = Len(loads) + 1)
            => loads'[Len(loads')].date = adminDate]_vars

\* C23 as claimed: when the answer of the last load in flight is taken, the
\* sessions shown are those of the selected date, without what was deleted.
DashboardShowsSelectedDate ==
    [][\A i \in 1..MaxLoads :
          (LoadResolve(i) /\ loads' = <<>>)
            => \A r \in AllReservations(adminSessions') :
                  r.date = adminDate /\ r.id \notin gone]_vars

ActiveTimers == {i \in 1..Len(timers) : timers[i].active}

\* C29: at most one interval timer is active at any time; and once the effects
\* have run, none is active while the auto-refresh is off or before login.
SingleRefreshTimer ==
    /\ Cardinality(ActiveTimers) <= 1
    /\ (AdminQuiescent /\ (~autoRefresh \/ adminStep = 1 \/ adminToken = Null))
          => ActiveTimers = {}

\* C29 witness: the auto-refresh was switched off and on again: the first
\* timer is cleared and the second one ticks
SecondTimerAlone ==
    /\ AdminQuiescent /\ autoRefresh
    /\ Len(timers) = 2
    /\ ActiveTimers = {2} /\ intervalRef = 2

\* C26 as claimed: while the delete request of a reservation is in flight,
\* deletingId is that reservation's id, whatever other deletes start or end.
DeleteGuardHeld ==
    \A n \in 1..Len(deletes) : adminDeletingId = deletes[n]

\* C24 as claimed: when a plate lookup succeeds and sets plateVerified, the
\* plate then held is the one that was looked up, whatever changed the plate
\* while the lookup was in flight.
VerifiedPlateIsCurrent ==
    [][(op.pc = "lookup" /\ op' = Idle /\ plateVerified')
          => Trim(plate') = op.plate]_vars

\* the body of the createReservation request of the last handleReserve call
CreateSent(log) ==
    LET n == CHOOSE i \in 1..Len(log) :
                 log[i].api = "createReservation" /\ log[i].dir = "request"
    IN  log[n].body

\* C25 as claimed: when handleReserve ends by entering step 4, the date, start
\* time, end time and session shown on the confirmation page are those of the
\* createReservation request it sent.
ConfirmationShowsRequest ==
    [][(step # 4 /\ step' = 4 /\ op.pc \in {"create", "refresh"})
          => /\ CreateSent(netlog').date = date'
             /\ CreateSent(netlog').startTime = startTime'
             /\ CreateSent(netlog').endTime = endTime(startTime', durationMin')
             /\ CreateSent(netlog').sessionId = sessionId']_vars

\* C27: startTime is always one of the grid labels, and once the effects are
\* quiescent a selection with one of the offered durations ends by 22:00,
\* whatever the occupied set.
StartTimeValid ==
    /\ startTime \in SeqRange(SLOTS)
    /\ Len(SLOTS) = 26
    /\ (Quiescent /\ durationMin \in SeqRange(DURATION_OPTIONS))
          => toMinutes(startTime) + durationMin <= 22 * 60

\* the whole day is occupied and the longest duration is selected: no free slot
\* fits, and the effect has settled on the first label
FallbackSettled ==
    /\ Quiescent
    /\ occupiedSet = SeqRange(SLOTS)
    /\ durationMin = 120
    /\ startTime = SLOTS[1]

\* a window build in flight is answered, every date with one of the bucket
\* lists of the store, or fails
WindowSettles ==
    \E i \in 1..MaxInFlight :
       \/ \E j \in 1..Len(Payloads) : WindowAnswer(i, Payloads[j])
       \/ \E msg \in ErrMessages : WindowReject(i, msg)

\* A user who gives finitely many inputs: each field of the login and plate
\* pages is filled once, and on the schedule page the date, the session and the
\* start time only move forward, the duration only away from its default and
\* then upward.  Requests are answered; the window builds may also fail.
NextLive ==
    \/ RunEffects
    \/ \E e \in EmailChoices : Quiescent /\ email = <<>> /\ onEmailChange(e)
    \/ \E pw \in PasswordChoices : Quiescent /\ password = "" /\ onPasswordChange(pw)
    \/ Quiescent /\ handleLogin
    \/ \E t \in TokenChoices : LoginResolve(t)
    \/ Quiescent /\ plate = <<>> /\ handlePlateChange(<<"1", "2", "K", "3", "4", "5", "6">>)
    \/ Quiescent /\ handleVerifyPlate
    \/ LookupResolve(<<>>)
    \/ MyLoadResolve(<<>>)
    \/ \E d \in DateChoices : CanInput /\ d > date /\ onDateChange(d)
    \/ \E s \in SessionChoices : CanInput /\ s > sessionId /\ onSessionChange(s)
    \/ \E dur \in DurationChoices :
          /\ CanInput
          /\ dur # durationMin
          /\ (durationMin = 60 \/ dur > durationMin)
          /\ onDurationChange(dur)
    \/ \E slot \in SlotChoices :
          CanInput /\ toMinutes(slot) > toMinutes(startTime) /\ onStartTimeChange(slot)
    \/ WindowSettles

\* The scheduling the code relies on: a render whose effects are due is
\* committed, and every fetch responds.
SpecLive ==
    Init /\ [][NextLive]_vars /\ WF_vars(RunEffects) /\ WF_vars(WindowSettles)

Settled == Quiescent /\ builds = <<>> /\ ~availabilityLoading

\* C28: after the user's last input the window effect and the reconciliation
\* effect stop re-running: from some point on no effect is due, no window build
\* is in flight and availabilityLoading is false.
CascadeTerminates == <>[]Settled

\* the reconciliation effect has moved the start off the clicked labels, the
\* window effect has run again for it, and both have come to rest
CascadeSettled ==
    /\ Settled
    /\ step = 3
    /\ durationMin = 120
    /\ startTime \notin SlotChoices

\* ------------------------------------------------------- the whole flow
\* variant of onMyReservations: the step changes without a token as well
onMyReservationsUnguarded ==
    /\ goToStep(5)
    /\ UNCHANGED <<auxVars, loading, loginVars, plateVars, selVars, winVars, listVars,
                   op, netlog, deps>>

\* Header onMyReservations, on every page: () => token && goToStep(5)
onMyReservations ==
    /\ IF token # Null THEN goToStep(5) ELSE UNCHANGED <<error, step>>
    /\ UNCHANGED <<auxVars, loading, loginVars, plateVars, selVars, winVars, listVars,
                   op, netlog, deps>>

\* the confirmation page is rendered when step === 4 && reservationId
ResultShown == step = 4 /\ reservationId # Null

\* ReservationResult onChangeSchedule
onChangeSchedule ==
    /\ ResultShown
    /\ goToStep(3)
    /\ UNCHANGED <<auxVars, loading, loginVars, plateVars, selVars, winVars, listVars,
                   op, netlog, deps>>

\* ReservationResult onReset.  setOccupiedSet(new Set()) stores a new object,
\* which the reconciliation effect sees as a changed dependency.
resetFlow ==
    /\ ResultShown
    /\ reservationId' = Null
    /\ plate' = <<>>
    /\ plateVerified' = FALSE
    /\ plateRegistered' = Null
    /\ plateHistory' = <<>>
    /\ email' = <<>>
    /\ password' = ""
    /\ token' = Null
    /\ startTime' = SLOTS[1]
    /\ durationMin' = 60
    /\ sessionId' = 1
    /\ date' = todayISO
    /\ myList' = <<>>
    /\ occupiedSet' = {}
    /\ occFresh' = TRUE
    /\ stripData' = <<>>
    /\ closeScanner
    /\ goToStep(1)
    /\ UNCHANGED <<probe, adminVars, opens, snaps, torn, loading, plateValid,
                   availabilityLoading, builds, myLoads, op, netlog, deps>>

\* The five pages together: the user logs in, verifies a plate, moves the date,
\* submits, walks between the pages by every button that changes the step, and
\* starts over from the confirmation page once the list load of the session
\* has been answered.  The date is moved while no window build is in flight,
\* and the store answers from one snapshot.
NextFlow ==
    \/ RunEffects
    \/ Funnel({<<"1", "2", "K", "3", "4", "5", "6">>}, {<<>>}, {<<>>})
    \/ onBackToLogin
    \/ Quiescent /\ onBack
    \/ Quiescent /\ onMyReservations
    \/ Quiescent /\ handleGoMyReservations
    \/ Quiescent /\ handleReturnFromHistory
    \/ Quiescent /\ onChangeSchedule
    \/ Quiescent /\ myLoads = 0 /\ resetFlow
    \/ \E d \in DateChoices : NoBuildInFlight /\ Quiescent /\ onDateChange(d)
    \/ \E i \in 1..MaxInFlight : WindowResolve(i, FetchWorld)
    \/ Quiescent /\ handleReserve
    \/ \E v \in Verifications : VerifyResolve(v)
    \/ \E msg \in ErrMessages : VerifyReject(msg)
    \/ \E id \in ReservationIds : CreateResolve(id)
    \/ \E msg \in ErrMessages : CreateReject(msg)
    \/ RefreshResolve(<<>>)
    \/ \E msg \in ErrMessages : RefreshReject(msg)

SpecFlow == Init /\ [][NextFlow]_vars

\* the id that createReservation answered in the last handleReserve call
Created(log) ==
    {log[i].body : i \in {n \in 1..Len(log) :
                             log[n].api = "createReservation" /\ log[n].dir = "answer"}}

\* step 4 is entered only by the end of a handleReserve whose create succeeded
EntersResult ==
    (step # 4 /\ step' = 4)
       => /\ op.pc \in {"create", "refresh"}
          /\ op' = Idle
          /\ Created(netlog') = {reservationId'}

\* a step other than 1 is entered only with a token
EntersWithToken == (step' # step /\ step' \in 2..5) => token' # Null

\* leaving the confirmation page for step 1 clears the flow
ResetClears ==
    (step = 4 /\ step' = 1)
       => /\ token' = Null
          /\ reservationId' = Null
          /\ ~plateVerified'
          /\ occupiedSet' = {}
          /\ stripData' = <<>>

\* C30: step 4 is entered only as the last action of a handleReserve whose
\* createReservation succeeded, and then shows the id that was returned; steps
\* 2 to 5 are entered and held only with a login token; resetFlow returns to
\* step 1 with token, reservationId, plate verification, occupiedSet and
\* stripData cleared.
StepFlowSafety ==
    /\ [](step = 4 => Created(netlog) = {reservationId})
    /\ [](step \in 2..5 => token # Null)
    /\ [][EntersResult /\ EntersWithToken /\ ResetClears]_vars

\* after a reservation was confirmed the user has started over
FlowReset ==
    /\ step = 1
    /\ token = Null
    /\ netlog # <<>>
    /\ Created(netlog) # {}
    /\ reservationId = Null
    /\ occupiedSet = {}
    /\ occFresh

\* ------------------------------------------------- helpers on their own
InitCalls == Unmounted /\ AdminClosed /\ probe \in FreePctCalls \cup ColorCalls \cup GridCalls
                                   \cup ExtractCalls

NextCalls ==
    \/ CallFreePct
    \/ CallColor
    \/ CallDaySlots
    \/ CallSlotsOfDay
    \/ CallExtractError

SpecCalls == InitCalls /\ [][NextCalls]_vars
====
